---- MODULE Spec2Model ----
(***************************************************************************)
(* A model of pync (Netcat for Python): the connection iterators           *)
(* (NetcatClient / NetcatServer and their TCP and UDP subclasses), the     *)
(* relay loop NetcatConnection.readwrite and the top-level pync() run.     *)
(*                                                                         *)
(* Three specifications share the variables below:                         *)
(*   Spec       a Client or Server object used through the iteration       *)
(*              protocol (for-loop generators, explicit get-next, close)   *)
(*   SpecRun    the pync() run: parse, construct, iterate, relay, report   *)
(*   SpecRelay  one connection's readwrite loop                            *)
(***************************************************************************)
EXTENDS Integers, Sequences, FiniteSets, TLC

VARIABLES
    kind,       \* concrete type of the iterator object
    pync,       \* TRUE when the object is one of pync()'s Pync* subclasses
    v,          \* NetcatContext.v (verbose)
    z,          \* NetcatClient.z (zero-I/O)
    x,          \* NetcatClient.x given (a proxy is configured)
    k,          \* NetcatServer.k (keep open)
    port,       \* NetcatClient.port (the list walked by _iterports)
    iterports,  \* NetcatClient._iterports: entries of port already consumed
    socks,      \* every socket created: [open, closes]
    conns,      \* every NetcatConnection created: [sock, peer, userClosed]
    gens,       \* generator objects returned by __iter__: [st, conn, loop]
    running,    \* the generator that is executing (0: the caller is)
    pending,    \* server: peers waiting on the bound socket, oldest first
    arrived,    \* server: number of peers that have arrived so far
    udpPeer,    \* UDP server: peer the bound socket is connected to (0: none)
    srvClosed,  \* server: the caller has called close()
    dials,      \* history: every _create_connection attempt [idx, port, outcome]
    stderr,     \* lines written to the error stream
    out,        \* history: what each call of the caller returned or raised
    status,     \* pync(): exit.status
    argv,       \* pync(): the command line, as the parser reads it
    ns,         \* parse_args: the namespace returned (no keys: none)
    addr,       \* server: the address _server_bind binds [dest, port]
    srcport,    \* from_args: the p the client was constructed with (0: None)
    wrapper,    \* process wrapper: "command" (NonBlockingProcess), "python"
                \* (PythonProcess), "none"
    child,      \* the wrapper's process [alive, towrite]
    pipe,       \* what the child wrote and the parent has not read (sizes)
    reader,     \* the parent's read call [at, n, drained]
    preads,     \* history: what each read returned or raised
    attempt,    \* _create_connection: one port attempt of a client
                \* [s, w, kw, at, calls, res]
    pc,         \* pync(): where the run is
    exc,        \* pync(): the exception raised in the run [type, msg, at]
    retval,     \* pync(): the value returned (-1: nothing returned)
    opts,       \* NetcatConnection options [C, d, i, q, w]
    stdin,      \* readwrite: bytes still to come on the input stream
    netin,      \* readwrite: bytes still to come from the peer
    stdout,     \* readwrite: chunks written to the output stream
    netout,     \* readwrite: chunks handed to send
    reads,      \* readwrite: chunks read from the input stream
    recvs,      \* readwrite: chunks received from the socket
    shut,       \* readwrite: halves of the socket shut down [rd, wr]
    moved,      \* readwrite: this iteration's bytes received and read,
                \* whether its input read reported EOF, the errno of its
                \* failed recv and send, and whether its input read raised
                \* StopReadWrite [rx, tx, eof, rxerr, txerr, stop]
    netin_eof,  \* readwrite: local netin_eof
    stdin_eof,  \* readwrite: local stdin_eof (-1: None)
    idle_time,  \* readwrite: local idle_time
    now,        \* readwrite: time.time()
    step        \* readwrite: where the loop is, or the exit it took

ivars == <<kind, pync, v, z, x, k, port, iterports, socks, conns, gens,
           running, pending, arrived, udpPeer, srvClosed, dials, stderr, out,
           status>>

lvars == <<opts, stdin, netin, stdout, netout, reads, recvs, shut, moved,
           netin_eof, stdin_eof, idle_time, now, step>>

avars == <<argv, ns, addr, srcport>>

pvars == <<wrapper, child, pipe, reader, preads>>

dvars == <<attempt>>

rvars == <<avars, pvars, dvars, dvars, pc, exc, retval, lvars>>

vars == <<ivars, rvars>>

(***************************************************************************)
(* Bounds of the model.                                                    *)
(***************************************************************************)
MaxPortList == 2    \* length of a client's port list
MaxGens == 2        \* generators created by __iter__ on one object
MaxPeers == 2       \* peers that arrive at a server

Ports == 1..MaxPortList
Peers == 1..MaxPeers

\* NetcatClient.proxy_port, here the default of proxy protocol '5'.
ProxyPort == 1080

ClientKinds == {"TCPClient", "UDPClient"}
ServerKinds == {"TCPServer", "UDPServer"}

IsClient == kind \in ClientKinds
IsServer == kind \in ServerKinds

protocol_name == IF kind \in {"TCPClient", "TCPServer"} THEN "tcp" ELSE "udp"

RECURSIVE SeqsUpTo(_, _)
SeqsUpTo(S, n) ==
    IF n = 0 THEN {<<>>}
    ELSE LET shorter == SeqsUpTo(S, n - 1)
         IN  shorter \cup {Append(s, e) : s \in {t \in shorter : Len(t) = n - 1}, e \in S}

\* A client only compares ports for equality, so one port list stands for
\* all its renamings: the first entry is port 1 and every entry is at most
\* one above the entries before it.
Canonical(s) ==
    \A i \in 1..Len(s) : \A q \in 1..(s[i] - 1) : \E j \in 1..(i - 1) : s[j] = q

PortLists == {s \in SeqsUpTo(Ports, MaxPortList) : s # <<>> /\ Canonical(s)}

(***************************************************************************)
(* Sockets.  socket.close() on a closed socket is a no-op for the socket,  *)
(* but the call is counted.                                                *)
(***************************************************************************)
NewSock == [open |-> TRUE, closes |-> 0]

CloseSock(ss, i) == [ss EXCEPT ![i] = [open |-> FALSE, closes |-> @.closes + 1]]

(***************************************************************************)
(* NetcatContext.print_verbose: written to stderr only when v is set.      *)
(***************************************************************************)
print_verbose(err, m) == IF v THEN Append(err, m) ELSE err

\* v_conn_refused, with the 'pync: ' prefix of the Pync*Client subclasses.
v_conn_refused(dst, p) ==
    [msg |-> "refused", prefix |-> IF pync THEN "pync: " ELSE "",
     dest |-> dst, port |-> p, proto |-> protocol_name, text |-> ""]

v_conn_succeeded(p) ==
    [msg |-> "succeeded", prefix |-> "",
     dest |-> "dest", port |-> p, proto |-> protocol_name, text |-> ""]

(***************************************************************************)
(* What NetcatClient._create_connection does for one port: the outcomes    *)
(* that next_connection's except clauses tell apart.                       *)
(***************************************************************************)
DirectOutcomes ==
    {"ok",
     "ConnectionRefusedError",  \* compat.ConnectionRefusedError
     "ECONNREFUSED",            \* socket.error whose errno is ECONNREFUSED
     "sockerr",                 \* any other socket.error (e.g. a timeout)
     "gaierror"}                \* _getaddrinfo failed: NetcatSocketError
ProxyOutcomes ==
    {"proxy_refused",           \* ProxyError wrapping an ECONNREFUSED
     "proxy_sockerr",           \* ProxyError wrapping another socket error
     "proxy_err"}               \* ProxyError wrapping nothing

CreateOutcomes == IF x THEN DirectOutcomes \cup ProxyOutcomes ELSE DirectOutcomes

Refusals == {"ConnectionRefusedError", "ECONNREFUSED"}

\* What next_connection gives its caller for an outcome of _create_connection.
NextConnectionResult_RefusalFatal(o) ==
    CASE o = "ok" -> "return"
      [] o = "ConnectionRefusedError" \/ o = "proxy_refused" -> "ConnectionRefused"
      [] o \in {"sockerr", "gaierror", "ECONNREFUSED"} -> "NetcatSocketError"
      [] o \in {"proxy_sockerr", "proxy_err"} -> "NetcatProxyError"

NextConnectionResult_ErrorSkipped(o) ==
    CASE o = "ok" -> "return"
      [] o \in Refusals \cup {"proxy_refused", "sockerr"} -> "ConnectionRefused"
      [] o \in {"gaierror"} -> "NetcatSocketError"
      [] o \in {"proxy_sockerr", "proxy_err"} -> "NetcatProxyError"

NextConnectionResult(o) ==
    CASE o = "ok" -> "return"
      [] o \in Refusals \cup {"proxy_refused"} -> "ConnectionRefused"
      [] o \in {"sockerr", "gaierror"} -> "NetcatSocketError"
      [] o \in {"proxy_sockerr", "proxy_err"} -> "NetcatProxyError"

\* NetcatClient._conn_refused's message for an outcome.
RefusedMsg_Dest(o, p) == v_conn_refused("dest", p)

RefusedMsg(o, p) ==
    IF o = "proxy_refused" THEN v_conn_refused("proxy", ProxyPort)
    ELSE v_conn_refused("dest", p)

\* stderr after next_connection's reporting for port p and outcome o.
ClientReport(o, p) ==
    CASE o = "ok" -> print_verbose(stderr, v_conn_succeeded(p))
      [] o \in Refusals \cup {"proxy_refused"} -> print_verbose(stderr, RefusedMsg(o, p))
      [] OTHER -> stderr

\* The Pync*Client._conn_succeeded override sets exit.status to 0.
StatusAfterSucceeded_Unset == status

StatusAfterSucceeded == IF pync THEN 0 ELSE status

\* Sockets after next_connection: a new socket for a success, which zero-I/O
\* mode closes before returning.
ClientNextSocks(o) ==
    IF o # "ok" THEN socks
    ELSE IF z THEN CloseSock(Append(socks, NewSock), Len(socks) + 1)
    ELSE Append(socks, NewSock)

NewConn(s, p) == [sock |-> s, peer |-> p, userClosed |-> FALSE]

\* iter_connections yields the connection unless zero-I/O mode is on.
YieldsConnection_Always == TRUE
YieldsConnection == ~z

\* The message a NetcatError carries: NetcatSocketError takes the socket
\* error's text, NetcatProxyError the wrapped socket error's text if there
\* is one and the proxy error's text otherwise.
ErrorMsg(o) ==
    CASE o = "sockerr" -> "str(socket_err)"
      [] o = "gaierror" -> "str(gaierror)"
      [] o = "proxy_sockerr" -> "str(proxy_err.socket_err)"
      [] o = "proxy_err" -> "str(proxy_err)"
      [] OTHER -> ""

Result(via, res, arg) == [via |-> via, res |-> res, arg |-> arg, msg |-> ""]

Raised(via, res, msg) == [via |-> via, res |-> res, arg |-> 0, msg |-> msg]

(***************************************************************************)
(* NetcatClient.next_connection for the outcome o of _create_connection,   *)
(* up to its caller: it advances _iterports, reports, and creates the      *)
(* connection.  Enabled only when a port is left.                          *)
(***************************************************************************)
ClientNextConnection(o) ==
    /\ iterports < Len(port)
    /\ o \in CreateOutcomes
    /\ iterports' = iterports + 1
    /\ LET p == port[iterports + 1] IN
       /\ dials' = Append(dials, [idx |-> iterports + 1, port |-> p, outcome |-> o])
       /\ stderr' = ClientReport(o, p)
       /\ conns' = IF o = "ok" THEN Append(conns, NewConn(Len(socks) + 1, p)) ELSE conns
    /\ status' = IF o = "ok" THEN StatusAfterSucceeded ELSE status

(***************************************************************************)
(* Who drives the iterator.  pc = "lib": any caller of the library, free   *)
(* to interleave the operations.  Otherwise pync() drives it through       *)
(* NetcatIterator.readwrite, "for conn in self: conn.readwrite()", whose   *)
(* only generator is generator 1.                                          *)
(***************************************************************************)
LibCall == pc = "lib"

InLoop(g) == pc = "lib" \/ (pc = "next" /\ g = 1)

\* Where the for loop goes with what next(gen) gave: a connection is
\* relayed, StopIteration ends the loop, an exception leaves the with block.
ForLoop ==
    /\ UNCHANGED <<avars, pvars, dvars, retval, lvars>>
    /\ IF pc = "lib" \/ Len(out') = Len(out)
       THEN UNCHANGED <<pc, exc>>
       ELSE LET r == out'[Len(out')] IN
            IF r.res = "yield" THEN pc' = "relay" /\ UNCHANGED exc
            ELSE IF r.res = "StopIteration" THEN pc' = "exit" /\ UNCHANGED exc
            ELSE pc' = "exit" /\ exc' = [type |-> r.res, msg |-> r.msg, at |-> "next"]

(***************************************************************************)
(* NetcatIterator.__iter__: a new generator over the same object.          *)
(***************************************************************************)
\* (Generators that have not started are alike: the model creates the next
\* one once the ones before it have started.)
Iter_Restart ==
    /\ pc \in {"lib", "iter"}
    /\ pc' = IF pc = "iter" THEN "next" ELSE pc
    /\ UNCHANGED <<avars, pvars, dvars, exc, retval, lvars>>
    /\ running = 0
    /\ Len(gens) < MaxGens
    /\ \A g \in 1..Len(gens) : gens[g].st # "created"
    /\ gens' = Append(gens, [st |-> "created", conn |-> 0, loop |-> FALSE])
    /\ iterports' = 0
    /\ UNCHANGED <<kind, pync, v, z, x, k, port, socks, conns, running,
                   pending, arrived, udpPeer, srvClosed, dials, stderr, out, status>>

Iter ==
    /\ pc \in {"lib", "iter"}
    /\ pc' = IF pc = "iter" THEN "next" ELSE pc
    /\ UNCHANGED <<avars, pvars, dvars, exc, retval, lvars>>
    /\ running = 0
    /\ Len(gens) < MaxGens
    /\ \A g \in 1..Len(gens) : gens[g].st # "created"
    /\ gens' = Append(gens, [st |-> "created", conn |-> 0, loop |-> FALSE])
    /\ UNCHANGED <<kind, pync, v, z, x, k, port, iterports, socks, conns, running,
                   pending, arrived, udpPeer, srvClosed, dials, stderr, out, status>>

(***************************************************************************)
(* NetcatClient.iter_connections.                                          *)
(***************************************************************************)
\* next(gen) on a generator that has not started, or is suspended at its
\* yield: the finally clause closes the yielded connection, then the loop
\* goes on.
ClientGenResume(g) ==
    /\ IsClient
    /\ InLoop(g)
    /\ running = 0
    /\ g \in 1..Len(gens)
    /\ gens[g].st \in {"created", "suspended"}
    /\ running' = g
    /\ gens' = [gens EXCEPT ![g] = [st |-> "running", conn |-> 0, loop |-> FALSE]]
    /\ socks' = IF gens[g].st = "suspended"
                THEN CloseSock(socks, conns[gens[g].conn].sock)
                ELSE socks
    /\ UNCHANGED <<kind, pync, v, z, x, k, port, iterports, conns,
                   pending, arrived, udpPeer, srvClosed, dials, stderr, out, status>>
    /\ ForLoop

\* One turn of the while loop: the port list is exhausted.
ClientGenExhausted(g) ==
    /\ IsClient
    /\ InLoop(g)
    /\ running = g
    /\ g \in 1..Len(gens)
    /\ iterports = Len(port)
    /\ gens' = [gens EXCEPT ![g].st = "finished"]
    /\ running' = 0
    /\ out' = Append(out, Result(g, "StopIteration", 0))
    /\ UNCHANGED <<kind, pync, v, z, x, k, port, iterports, socks, conns,
                   pending, arrived, udpPeer, srvClosed, dials, stderr, status>>
    /\ ForLoop

\* One turn of the while loop: a port is dialed.
ClientGenDial(g) ==
    /\ IsClient
    /\ InLoop(g)
    /\ running = g
    /\ g \in 1..Len(gens)
    /\ \E o \in CreateOutcomes :
        /\ ClientNextConnection(o)
        /\ LET r == NextConnectionResult(o)
               c == Len(conns) + 1
               s == Len(socks) + 1
           IN
           CASE r = "return" /\ YieldsConnection ->
                  \* yield nc_conn
                  /\ socks' = ClientNextSocks(o)
                  /\ gens' = [gens EXCEPT ![g] = [st |-> "suspended", conn |-> c, loop |-> FALSE]]
                  /\ running' = 0
                  /\ out' = Append(out, Result(g, "yield", c))
             [] r = "return" /\ ~YieldsConnection ->
                  \* nothing is yielded; finally: nc_conn.close()
                  /\ socks' = CloseSock(ClientNextSocks(o), s)
                  /\ UNCHANGED <<gens, running, out>>
             [] r = "ConnectionRefused" ->
                  \* except ConnectionRefused: continue
                  /\ socks' = ClientNextSocks(o)
                  /\ UNCHANGED <<gens, running, out>>
             [] OTHER ->
                  \* a NetcatError leaves the generator
                  /\ socks' = ClientNextSocks(o)
                  /\ gens' = [gens EXCEPT ![g].st = "finished"]
                  /\ running' = 0
                  /\ out' = Append(out, Raised(g, r, ErrorMsg(o)))
    /\ UNCHANGED <<kind, pync, v, z, x, k, port, pending, arrived, udpPeer, srvClosed>>
    /\ ForLoop

(***************************************************************************)
(* NetcatIterator.__next__ on a client: next_connection, called directly.  *)
(***************************************************************************)
ClientGetNextExhausted ==
    /\ LibCall
    /\ IsClient
    /\ running = 0
    /\ iterports = Len(port)
    /\ \A i \in 1..Len(out) : out[i] # Result(0, "StopIteration", 0)
    /\ out' = Append(out, Result(0, "StopIteration", 0))
    /\ UNCHANGED <<kind, pync, v, z, x, k, port, iterports, socks, conns, gens,
                   running, pending, arrived, udpPeer, srvClosed, dials, stderr, status>>
    /\ UNCHANGED rvars

ClientGetNext ==
    /\ LibCall
    /\ IsClient
    /\ running = 0
    /\ \E o \in CreateOutcomes :
        /\ ClientNextConnection(o)
        /\ socks' = ClientNextSocks(o)
        /\ out' = Append(out, IF o = "ok" THEN Result(0, "return", Len(conns) + 1)
                               ELSE Raised(0, NextConnectionResult(o), ErrorMsg(o)))
    /\ UNCHANGED <<kind, pync, v, z, x, k, port, gens, running,
                   pending, arrived, udpPeer, srvClosed>>
    /\ UNCHANGED rvars

(***************************************************************************)
(* NetcatServer.  The bound socket self._sock is socket 1.                 *)
(***************************************************************************)
ServSock == 1

v_listening ==
    [msg |-> "listening", prefix |-> "", dest |-> "bind", port |-> port[1],
     proto |-> protocol_name, text |-> ""]

v_listening_again_AsListening == v_listening

v_listening_again ==
    [msg |-> "listening_again", prefix |-> "", dest |-> "bind", port |-> port[1],
     proto |-> protocol_name, text |-> ""]

v_conn_accepted(peer) ==
    [msg |-> "accepted", prefix |-> "", dest |-> peer, port |-> port[1],
     proto |-> protocol_name, text |-> ""]

\* The Pync*Server._listening override sets exit.status to 0.
StatusAfterListening == IF pync THEN 0 ELSE status

\* The peers that have arrived so far.
SeenPeers ==
    {pending[j] : j \in 1..Len(pending)} \cup {conns[c].peer : c \in 1..Len(conns)}

\* A peer connects (TCP) or sends a datagram (UDP) to the bound socket.  A
\* UDP socket that is connected to a peer receives from that peer only.
\* (A server only compares peers for equality, so a peer not seen before
\* takes the next unused name.)
PeerArrives ==
    /\ IsServer
    /\ socks[ServSock].open
    /\ arrived < MaxPeers
    /\ \E s \in Peers :
        /\ s <= Cardinality(SeenPeers) + 1
        /\ (kind = "UDPServer" /\ udpPeer # 0) => s = udpPeer
        /\ pending' = Append(pending, s)
    /\ arrived' = arrived + 1
    /\ UNCHANGED <<kind, pync, v, z, x, k, port, iterports, socks, conns, gens,
                   running, udpPeer, srvClosed, dials, stderr, out, status>>
    /\ UNCHANGED rvars

\* NetcatServer._close_request on connection c: NetcatUDPServer closes the
\* request only when k is false.
close_request_Never(ss, c) == ss

close_request_Always(ss, c) == CloseSock(ss, conns[c].sock)

close_request(ss, c) ==
    IF kind = "UDPServer" /\ k THEN ss ELSE CloseSock(ss, conns[c].sock)

\* NetcatTCPServer.next_connection: "if not self.k: self.close()".
close_if_not_k_Never(ss) == ss

close_if_not_k(ss) == IF k THEN ss ELSE CloseSock(ss, ServSock)

\* NetcatUDPServer._get_request, "self._sock.connect(addr)": the peer the
\* bound socket is connected to after a datagram of sender was received.
udp_connect_Once(cur, sender) == IF cur = 0 THEN sender ELSE cur

udp_connect(cur, sender) == sender

(***************************************************************************)
(* next_connection of a server with a peer waiting: _get_request,          *)
(* _init_connection, _conn_accepted; NetcatTCPServer then closes the       *)
(* server when k is false.                                                 *)
(***************************************************************************)
ServerNextConnection ==
    /\ socks[ServSock].open
    /\ pending # <<>>
    /\ LET s == Head(pending) IN
       /\ pending' = Tail(pending)
       /\ stderr' = print_verbose(stderr, v_conn_accepted(s))
       /\ IF kind = "TCPServer"
          THEN /\ conns' = Append(conns, NewConn(Len(socks) + 1, s))
               /\ socks' = close_if_not_k(Append(socks, NewSock))
               /\ UNCHANGED udpPeer
          ELSE /\ conns' = Append(conns, NewConn(ServSock, s))
               /\ udpPeer' = udp_connect(udpPeer, s)
               /\ UNCHANGED socks

(***************************************************************************)
(* NetcatServer.iter_connections.                                          *)
(***************************************************************************)
\* next(gen) on a generator that has not started: _listening, then wait.
ServerGenStart(g) ==
    /\ IsServer
    /\ InLoop(g)
    /\ running = 0
    /\ g \in 1..Len(gens)
    /\ gens[g].st = "created"
    /\ stderr' = print_verbose(stderr, v_listening)
    /\ status' = StatusAfterListening
    /\ gens' = [gens EXCEPT ![g] = [st |-> "accept", conn |-> 0, loop |-> FALSE]]
    /\ running' = g
    /\ UNCHANGED <<kind, pync, v, z, x, k, port, iterports, socks, conns,
                   pending, arrived, udpPeer, srvClosed, dials, out>>
    /\ ForLoop

\* next(gen) on a generator suspended at a yield: finally _close_request;
\* with k, _listening_again and wait; without k the generator returns.
ServerGenResume(g) ==
    /\ IsServer
    /\ InLoop(g)
    /\ running = 0
    /\ g \in 1..Len(gens)
    /\ gens[g].st = "suspended"
    /\ socks' = close_request(socks, gens[g].conn)
    /\ IF k \/ gens[g].loop
       THEN /\ stderr' = print_verbose(stderr, v_listening_again)
            /\ gens' = [gens EXCEPT ![g] = [st |-> "accept", conn |-> 0, loop |-> TRUE]]
            /\ running' = g
            /\ UNCHANGED out
       ELSE /\ gens' = [gens EXCEPT ![g] = [st |-> "finished", conn |-> 0, loop |-> FALSE]]
            /\ out' = Append(out, Result(g, "StopIteration", 0))
            /\ UNCHANGED <<stderr, running>>
    /\ UNCHANGED <<kind, pync, v, z, x, k, port, iterports, conns,
                   pending, arrived, udpPeer, srvClosed, dials, status>>
    /\ ForLoop

\* next_connection finds the bound socket closed: StopIteration, and the
\* generator returns.
ServerGenAcceptClosed(g) ==
    /\ IsServer
    /\ InLoop(g)
    /\ running = g
    /\ g \in 1..Len(gens)
    /\ ~socks[ServSock].open
    /\ gens' = [gens EXCEPT ![g] = [st |-> "finished", conn |-> 0, loop |-> FALSE]]
    /\ running' = 0
    /\ out' = Append(out, Result(g, "StopIteration", 0))
    /\ UNCHANGED <<kind, pync, v, z, x, k, port, iterports, socks, conns,
                   pending, arrived, udpPeer, srvClosed, dials, stderr, status>>
    /\ ForLoop

\* next_connection accepts the waiting peer; the connection is yielded.
ServerGenAccept(g) ==
    /\ IsServer
    /\ InLoop(g)
    /\ running = g
    /\ g \in 1..Len(gens)
    /\ ServerNextConnection
    /\ gens' = [gens EXCEPT ![g] = [st |-> "suspended", conn |-> Len(conns) + 1,
                                    loop |-> gens[g].loop]]
    /\ running' = 0
    /\ out' = Append(out, Result(g, "yield", Len(conns) + 1))
    /\ UNCHANGED <<kind, pync, v, z, x, k, port, iterports,
                   arrived, srvClosed, dials, status>>
    /\ ForLoop

(***************************************************************************)
(* NetcatIterator.__next__ on a server: next_connection, called directly.  *)
(***************************************************************************)
ServerGetNextClosed ==
    /\ LibCall
    /\ IsServer
    /\ running = 0
    /\ ~socks[ServSock].open
    /\ \A i \in 1..Len(out) : out[i] # Result(0, "StopIteration", 0)
    /\ out' = Append(out, Result(0, "StopIteration", 0))
    /\ UNCHANGED <<kind, pync, v, z, x, k, port, iterports, socks, conns, gens,
                   running, pending, arrived, udpPeer, srvClosed, dials, stderr, status>>
    /\ UNCHANGED rvars

ServerGetNext ==
    /\ LibCall
    /\ IsServer
    /\ running = 0
    /\ ServerNextConnection
    /\ out' = Append(out, Result(0, "return", Len(conns) + 1))
    /\ UNCHANGED <<kind, pync, v, z, x, k, port, iterports, gens, running,
                   arrived, srvClosed, dials, status>>
    /\ UNCHANGED rvars

(***************************************************************************)
(* NetcatServer.close, called by the caller.                               *)
(***************************************************************************)
ServerClose ==
    /\ LibCall
    /\ IsServer
    /\ running = 0
    /\ ~srvClosed
    /\ srvClosed' = TRUE
    /\ socks' = CloseSock(socks, ServSock)
    /\ UNCHANGED <<kind, pync, v, z, x, k, port, iterports, conns, gens, running,
                   pending, arrived, udpPeer, dials, stderr, out, status>>
    /\ UNCHANGED rvars

(***************************************************************************)
(* gen.close(), or the generator being collected: GeneratorExit at the     *)
(* yield runs the finally clause.                                          *)
(***************************************************************************)
GenClose(g) ==
    /\ LibCall \/ pc \in {"exit", "handle", "return", "returned", "propagated"}
    /\ running = 0
    /\ g \in 1..Len(gens)
    /\ gens[g].st = "suspended"
    /\ gens' = [gens EXCEPT ![g] = [st |-> "finished", conn |-> 0, loop |-> FALSE]]
    /\ socks' = IF IsClient THEN CloseSock(socks, conns[gens[g].conn].sock)
                ELSE close_request(socks, gens[g].conn)
    /\ UNCHANGED <<kind, pync, v, z, x, k, port, iterports, conns, running,
                   pending, arrived, udpPeer, srvClosed, dials, stderr, out, status>>
    /\ UNCHANGED rvars

(***************************************************************************)
(* NetcatConnection.close, called by the caller on the connection it was   *)
(* handed last.                                                            *)
(***************************************************************************)
ConnClose(c) ==
    /\ LibCall
    /\ running = 0
    /\ c \in 1..Len(conns)
    /\ out # <<>>
    /\ out[Len(out)].res \in {"yield", "return"}
    /\ out[Len(out)].arg = c
    /\ ~conns[c].userClosed
    /\ conns' = [conns EXCEPT ![c].userClosed = TRUE]
    /\ socks' = CloseSock(socks, conns[c].sock)
    /\ UNCHANGED <<kind, pync, v, z, x, k, port, iterports, gens, running,
                   pending, arrived, udpPeer, srvClosed, dials, stderr, out, status>>
    /\ UNCHANGED rvars

NoExc == [type |-> "none", msg |-> "", at |-> ""]

NoArgs == [first |-> "none", l |-> FALSE, u |-> FALSE, dest |-> FALSE, port |-> <<>>,
           p |-> FALSE, k |-> FALSE, z |-> FALSE, v |-> FALSE, x |-> FALSE]

\* A word of the command line in a positional place: an integer ("8000"),
\* a range ("8000-8005"), a word that is neither ("localhost"), or the
\* empty string, which is dest's default.
IntTok(n) == [kind |-> "int", a |-> n, b |-> n]
RangeTok(a, b) == [kind |-> "range", a |-> a, b |-> b]
NameTok == [kind |-> "name", a |-> 0, b |-> 0]
EmptyTok == [kind |-> "empty", a |-> 0, b |-> 0]

\* The value of the port argument: None (the default), the plain integer,
\* or the chained ranges, given by the ports they yield.
PortNone == [type |-> "None", n |-> 0, ports |-> <<>>]
PortInt(n) == [type |-> "int", n |-> n, ports |-> <<>>]
PortChain(ps) == [type |-> "chain", n |-> 0, ports |-> ps]

\* The parser's result and the bound address before there is any.
\* The variables of the process wrappers outside their specification.
NoProc ==
    /\ wrapper = "none"
    /\ child = [alive |-> FALSE, towrite |-> 0]
    /\ pipe = <<>>
    /\ reader = [at |-> "idle", n |-> 0, drained |-> FALSE]
    /\ preads = <<>>

\* No port attempt is under way.
NoDial ==
    attempt = [s |-> FALSE, w |-> FALSE, kw |-> FALSE, at |-> "none", calls |-> <<>>,
               res |-> ""]

NoParse ==
    /\ ns = <<>>
    /\ addr = [dest |-> EmptyTok, port |-> PortNone]
    /\ srcport = 0

\* The variables of readwrite outside a readwrite call.
NoRelay ==
    /\ opts = [C |-> FALSE, d |-> FALSE, i |-> 0, q |-> 0, w |-> -1]
    /\ stdin = <<>>
    /\ netin = <<>>
    /\ stdout = <<>>
    /\ netout = <<>>
    /\ reads = <<>>
    /\ recvs = <<>>
    /\ shut = [rd |-> FALSE, wr |-> FALSE]
    /\ moved = [rx |-> 0, tx |-> 0, eof |-> FALSE, rxerr |-> "", txerr |-> "",
                stop |-> FALSE]
    /\ netin_eof = FALSE
    /\ stdin_eof = -1
    /\ idle_time = 0
    /\ now = 0
    /\ step = "none"

\* The run variables outside a pync() run.
NoRun ==
    /\ argv = NoArgs
    /\ NoParse
    /\ NoProc
    /\ NoDial
    /\ pc = "lib"
    /\ exc = NoExc
    /\ retval = -1
    /\ NoRelay

(***************************************************************************)
(* A client after construction.                                            *)
(***************************************************************************)
InitClient ==
    /\ kind \in ClientKinds
    /\ pync = FALSE
    /\ v \in BOOLEAN
    /\ z \in BOOLEAN
    /\ x = FALSE
    /\ k = FALSE
    /\ port \in PortLists
    /\ iterports = 0
    /\ socks = <<>>
    /\ conns = <<>>
    /\ gens = <<>>
    /\ running = 0
    /\ pending = <<>>
    /\ arrived = 0
    /\ udpPeer = 0
    /\ srvClosed = FALSE
    /\ dials = <<>>
    /\ stderr = <<>>
    /\ out = <<>>
    /\ status = 1
    /\ NoRun

(***************************************************************************)
(* A server after construction: socket created, bound and activated.       *)
(***************************************************************************)
InitServer ==
    /\ kind \in ServerKinds
    /\ pync = FALSE
    /\ v \in BOOLEAN
    /\ z = FALSE
    /\ x = FALSE
    /\ k \in BOOLEAN
    /\ port = <<1>>
    /\ iterports = 0
    /\ socks = <<NewSock>>
    /\ conns = <<>>
    /\ gens = <<>>
    /\ running = 0
    /\ pending = <<>>
    /\ arrived = 0
    /\ udpPeer = 0
    /\ srvClosed = FALSE
    /\ dials = <<>>
    /\ stderr = <<>>
    /\ out = <<>>
    /\ status = 1
    /\ NoRun

Init == InitClient \/ InitServer

Next ==
    \/ PeerArrives
    \/ Iter
    \/ \E g \in 1..MaxGens : ClientGenResume(g)
    \/ \E g \in 1..MaxGens : ClientGenExhausted(g)
    \/ \E g \in 1..MaxGens : ClientGenDial(g)
    \/ ClientGetNextExhausted
    \/ ClientGetNext
    \/ \E g \in 1..MaxGens : ServerGenStart(g)
    \/ \E g \in 1..MaxGens : ServerGenResume(g)
    \/ \E g \in 1..MaxGens : ServerGenAcceptClosed(g)
    \/ \E g \in 1..MaxGens : ServerGenAccept(g)
    \/ ServerGetNextClosed
    \/ ServerGetNext
    \/ ServerClose
    \/ \E g \in 1..MaxGens : GenClose(g)
    \/ \E c \in 1..(MaxPortList + MaxPeers) : ConnClose(c)

Spec == Init /\ [][Next]_vars

(***************************************************************************)
(* pync(args): the run.                                                    *)
(*                                                                         *)
(* pc: "parse" and "construct" are PyncNetcat.from_args; "iter", "next"    *)
(* and "relay" are NetcatIterator.readwrite inside the with block; "exit"  *)
(* is the with block's __exit__; "handle" the except clauses; "return"     *)
(* the final return statement; "returned" and "propagated" are the two     *)
(* ways the call ends.                                                     *)
(***************************************************************************)

\* A command line as the parser reads it.  first: what parsing meets first,
\* a -h option ("help"), a value that one of the type functions rejects
\* ("invalid"), or neither.  dest, p: truthy or not (dest is '' when it is
\* not given, and when it is given as an empty word before the ports).
\* port: the ports given.
ArgvSet ==
    [first : {"none", "help", "invalid"}, l : BOOLEAN, u : BOOLEAN,
     dest : BOOLEAN, port : {<<>>} \cup PortLists, p : BOOLEAN,
     k : BOOLEAN, z : BOOLEAN, v : BOOLEAN, x : BOOLEAN]

\* GroupingArgumentParser.group_parse_args: -h prints the help and exits,
\* a rejected value is an error exit, otherwise the grouped namespaces.
group_parse_args(a) ==
    CASE a.first = "help" -> "help"
      [] a.first = "invalid" -> "error"
      [] OTHER -> "namespaces"

\* NetcatArgumentParser.parse_args: the decision table on dest, port and p.
\* "reparse": server mode reads dest as the port and parses it again.
parse_args_Lenient(a) ==
    IF a.l
    THEN CASE a.dest /\ a.port = <<>> /\ ~a.p -> "reparse"
           [] OTHER -> "ok"
    ELSE CASE a.port # <<>> -> "ok"
           [] OTHER -> "usage"
parse_args(a) ==
    IF a.l
    THEN CASE a.dest /\ a.port # <<>> /\ ~a.p -> "ok"
           [] a.dest /\ a.port = <<>> /\ ~a.p -> "reparse"
           [] ~a.dest /\ a.port = <<>> /\ a.p -> "ok"
           [] a.dest /\ a.port = <<>> /\ a.p -> "ok"
           [] a.dest /\ a.port # <<>> /\ a.p -> "ok"
           [] OTHER -> "usage"
    ELSE CASE a.dest /\ a.port # <<>> -> "ok"
           [] OTHER -> "usage"

\* PyncArgumentParser.print_help sets exit.status to 0.
StatusAfterHelp_Unset == status
StatusAfterHelp == 0

SystemExit(why) == [type |-> "SystemExit", msg |-> why, at |-> "parse"]

\* -h: the help action prints the help and exits.
RunParseHelp ==
    /\ pc = "parse"
    /\ group_parse_args(argv) = "help"
    /\ status' = StatusAfterHelp
    /\ exc' = SystemExit("help")
    /\ pc' = "handle"
    /\ UNCHANGED <<kind, pync, v, z, x, k, port, iterports, socks, conns, gens,
                   running, pending, arrived, udpPeer, srvClosed, dials, stderr, out>>
    /\ UNCHANGED <<avars, pvars, dvars, retval, lvars>>

\* A rejected argument value: the parser's error exit.
RunParseError ==
    /\ pc = "parse"
    /\ group_parse_args(argv) = "error"
    /\ exc' = SystemExit("error")
    /\ pc' = "handle"
    /\ UNCHANGED <<ivars, avars, pvars, dvars, retval, lvars>>

\* The decision table's else branches: print_usage, exit.
RunParseUsage ==
    /\ pc = "parse"
    /\ group_parse_args(argv) = "namespaces"
    /\ parse_args(argv) = "usage"
    /\ exc' = SystemExit("usage")
    /\ pc' = "handle"
    /\ UNCHANGED <<ivars, avars, pvars, dvars, retval, lvars>>

\* "pync -l 8000": dest, parsed again as the port, is rejected.
RunParseReparseError ==
    /\ pc = "parse"
    /\ group_parse_args(argv) = "namespaces"
    /\ parse_args(argv) = "reparse"
    /\ exc' = SystemExit("error")
    /\ pc' = "handle"
    /\ UNCHANGED <<ivars, avars, pvars, dvars, retval, lvars>>

\* parse_args returns the merged namespace.
RunParseOk ==
    /\ pc = "parse"
    /\ group_parse_args(argv) = "namespaces"
    /\ parse_args(argv) \in {"ok", "reparse"}
    /\ pc' = "construct"
    /\ UNCHANGED <<ivars, avars, pvars, dvars, exc, retval, lvars>>

(***************************************************************************)
(* Netcat.__new__ and the constructors.                                    *)
(***************************************************************************)
KindOf(a) ==
    IF a.l THEN (IF a.u THEN "UDPServer" ELSE "TCPServer")
    ELSE (IF a.u THEN "UDPClient" ELSE "TCPClient")

\* What NetcatServer.__init__ can meet: _getaddrinfo or bind fail with a
\* socket error, which _server_bind wraps; setsockopt or listen fail with a
\* socket error that nothing wraps; or the user interrupts.  Several ports
\* reach the server as an iterator object, whose repr getaddrinfo rejects.
\* NetcatClient.__init__ opens no socket.
ConstructOutcomes(a) ==
    IF ~a.l THEN {"ok", "interrupt"}
    ELSE IF ~a.p /\ Len(a.port) > 1 THEN {"gaierror", "interrupt"}
    ELSE {"ok", "gaierror", "binderr", "oserror", "interrupt"}

ConstructExc(o) ==
    CASE o = "ok" -> NoExc
      [] o = "gaierror" ->
           [type |-> "NetcatSocketError", msg |-> "str(gaierror)", at |-> "construct"]
      [] o = "binderr" ->
           [type |-> "NetcatSocketError", msg |-> "str(socket_err)", at |-> "construct"]
      [] o = "oserror" ->
           [type |-> "OSError", msg |-> "str(socket_err)", at |-> "construct"]
      [] o = "interrupt" ->
           [type |-> "KeyboardInterrupt", msg |-> "", at |-> "construct"]

\* NetcatServer.__init__, "except: self._server_close(); raise": the socket
\* the constructor created is closed before the error goes on.
close_and_reraise_Leak(ss) == ss

close_and_reraise(ss) == CloseSock(ss, ServSock)

\* from_args builds the object from the merged namespace: server mode drops
\* the client group, client mode the server group.  A constructor that
\* fails closes the socket it created; the with block is not entered.
RunConstruct ==
    /\ pc = "construct"
    /\ kind' = KindOf(argv)
    /\ v' = argv.v
    /\ z' = (~argv.l /\ argv.z)
    /\ x' = (~argv.l /\ argv.x)
    /\ k' = (argv.l /\ argv.k)
    /\ port' = IF argv.l THEN <<1>> ELSE argv.port
    /\ \E o \in ConstructOutcomes(argv) :
        /\ socks' = IF ~argv.l THEN <<>>
                    ELSE IF o = "ok" THEN <<NewSock>>
                    ELSE close_and_reraise(<<NewSock>>)
        /\ exc' = ConstructExc(o)
        /\ pc' = IF o = "ok" THEN "iter" ELSE "handle"
    /\ UNCHANGED <<pync, iterports, conns, gens, running, pending, arrived,
                   udpPeer, srvClosed, dials, stderr, out, status>>
    /\ UNCHANGED <<avars, pvars, dvars, retval, lvars>>

(***************************************************************************)
(* conn.readwrite() in the for loop, by how it ends: it returns (EOF, a    *)
(* broken pipe, a timeout), or a send fails with another socket error,     *)
(* which readwrite raises again.                                           *)
(***************************************************************************)
SendErrnos == {"EPIPE", "ECONNRESET"}

send_failed_AllReturn(e) == "return"

send_failed(e) == IF e # "EPIPE" THEN "raise" ELSE "return"

RunRelay ==
    /\ pc = "relay"
    /\ \E o \in {"eof"} \cup SendErrnos :
        LET r == IF o = "eof" THEN "return" ELSE send_failed(o) IN
        IF r = "return"
        THEN pc' = "next" /\ UNCHANGED exc
        ELSE /\ pc' = "exit"
             /\ exc' = [type |-> "OSError", msg |-> "str(socket_err)", at |-> "relay"]
    /\ UNCHANGED <<ivars, avars, pvars, dvars, retval, lvars>>

(***************************************************************************)
(* A KeyboardInterrupt: while parsing, in the for loop (with the generator *)
(* dialing or waiting to accept, which unwinds it), during the relay, or   *)
(* in __exit__.                                                            *)
(***************************************************************************)
RunInterrupt ==
    /\ pc \in {"parse", "iter", "next", "relay", "exit"}
    /\ exc' = [type |-> "KeyboardInterrupt", msg |-> "", at |-> pc]
    /\ pc' = IF pc \in {"parse", "exit"} THEN "handle" ELSE "exit"
    /\ IF running # 0
       THEN /\ gens' = [gens EXCEPT ![running].st = "finished"]
            /\ running' = 0
       ELSE UNCHANGED <<gens, running>>
    /\ UNCHANGED <<kind, pync, v, z, x, k, port, iterports, socks, conns,
                   pending, arrived, udpPeer, srvClosed, dials, stderr, out, status>>
    /\ UNCHANGED <<avars, pvars, dvars, retval, lvars>>

(***************************************************************************)
(* NetcatContext.__exit__: self.close().  A client's close does nothing.   *)
(***************************************************************************)
RunWithExit ==
    /\ pc = "exit"
    /\ IF IsServer
       THEN /\ socks' = CloseSock(socks, ServSock)
            /\ srvClosed' = TRUE
       ELSE UNCHANGED <<socks, srvClosed>>
    /\ pc' = IF exc.type = "none" THEN "return" ELSE "handle"
    /\ UNCHANGED <<kind, pync, v, z, x, k, port, iterports, conns, gens, running,
                   pending, arrived, udpPeer, dials, stderr, out, status>>
    /\ UNCHANGED <<avars, pvars, dvars, exc, retval, lvars>>

(***************************************************************************)
(* The except clauses of pync().                                           *)
(***************************************************************************)
\* NetcatSocketError and NetcatProxyError are the subclasses of NetcatError.
IsNetcatError_SocketOnly(t) == t = "NetcatSocketError"

IsNetcatError(t) == t \in {"NetcatSocketError", "NetcatProxyError"}

ErrorLine(m) ==
    [msg |-> "error", prefix |-> "pync: ", dest |-> "", port |-> 0, proto |-> "",
     text |-> m]

BlankLine ==
    [msg |-> "blank", prefix |-> "", dest |-> "", port |-> 0, proto |-> "",
     text |-> ""]

StatusAfterError_Kept == status
StatusAfterError == 1

StatusAfterInterrupt_Kept == status
StatusAfterInterrupt == 130

RunHandle ==
    /\ pc = "handle"
    /\ CASE IsNetcatError(exc.type) ->
              /\ stderr' = Append(stderr, ErrorLine(exc.msg))
              /\ status' = StatusAfterError
              /\ pc' = "return"
              /\ UNCHANGED retval
         [] exc.type = "KeyboardInterrupt" ->
              /\ stderr' = Append(stderr, BlankLine)
              /\ status' = StatusAfterInterrupt
              /\ pc' = "return"
              /\ UNCHANGED retval
         [] exc.type = "SystemExit" ->
              /\ retval' = status
              /\ pc' = "returned"
              /\ UNCHANGED <<stderr, status>>
         [] OTHER ->
              \* no except clause matches: the exception leaves pync()
              /\ pc' = "propagated"
              /\ UNCHANGED <<stderr, status, retval>>
    /\ UNCHANGED <<kind, pync, v, z, x, k, port, iterports, socks, conns, gens,
                   running, pending, arrived, udpPeer, srvClosed, dials, out>>
    /\ UNCHANGED <<avars, pvars, dvars, exc, lvars>>

\* return exit.status
RunReturn ==
    /\ pc = "return"
    /\ retval' = status
    /\ pc' = "returned"
    /\ UNCHANGED <<ivars, avars, pvars, dvars, exc, lvars>>

\* exit.status = 1; no object exists before from_args has built one.
InitRun ==
    /\ kind = "none"
    /\ pync = TRUE
    /\ v = FALSE
    /\ z = FALSE
    /\ x = FALSE
    /\ k = FALSE
    /\ port = <<>>
    /\ iterports = 0
    /\ socks = <<>>
    /\ conns = <<>>
    /\ gens = <<>>
    /\ running = 0
    /\ pending = <<>>
    /\ arrived = 0
    /\ udpPeer = 0
    /\ srvClosed = FALSE
    /\ dials = <<>>
    /\ stderr = <<>>
    /\ out = <<>>
    /\ status = 1
    /\ argv \in ArgvSet
    /\ NoParse
    /\ NoProc
    /\ NoDial
    /\ pc = "parse"
    /\ exc = NoExc
    /\ retval = -1
    /\ NoRelay

\* (Nothing closes the bound socket while pync()'s generator waits to
\* accept, so ServerGenAcceptClosed has no place in a run.)
NextRun ==
    \/ RunParseHelp
    \/ RunParseError
    \/ RunParseUsage
    \/ RunParseReparseError
    \/ RunParseOk
    \/ RunConstruct
    \/ Iter
    \/ \E g \in 1..MaxGens : ClientGenResume(g)
    \/ \E g \in 1..MaxGens : ClientGenExhausted(g)
    \/ \E g \in 1..MaxGens : ClientGenDial(g)
    \/ PeerArrives
    \/ \E g \in 1..MaxGens : ServerGenStart(g)
    \/ \E g \in 1..MaxGens : ServerGenResume(g)
    \/ \E g \in 1..MaxGens : ServerGenAccept(g)
    \/ RunRelay
    \/ RunInterrupt
    \/ RunWithExit
    \/ RunHandle
    \/ RunReturn
    \/ \E g \in 1..MaxGens : GenClose(g)

SpecRun == InitRun /\ [][NextRun]_vars

(***************************************************************************)
(* NetcatConnection.readwrite: the relay loop of one connection.           *)
(*                                                                         *)
(* Byte strings are run-length encoded: a sequence of runs [b, n], n       *)
(* copies of byte b, adjacent runs of different bytes.                     *)
(***************************************************************************)
plen == 2048

MaxRuns == 2        \* runs in the input stream
MaxNetRuns == 1     \* runs in the stream from the peer
MaxTime == 2        \* the clock stops here

Runs ==
    {[b |-> "LF", n |-> 1], [b |-> "a", n |-> 1], [b |-> "a", n |-> plen + 1]}

NormalForm(s) == \A j \in 1..(Len(s) - 1) : s[j].b # s[j + 1].b

Streams(m) == {s \in SeqsUpTo(Runs, m) : NormalForm(s)}

\* len(data)
RECURSIVE BLen(_)
BLen(s) == IF s = <<>> THEN 0 ELSE Head(s).n + BLen(Tail(s))

\* data[:m]
RECURSIVE Take(_, _)
Take(s, m) ==
    IF m = 0 \/ s = <<>> THEN <<>>
    ELSE IF Head(s).n <= m THEN <<Head(s)>> \o Take(Tail(s), m - Head(s).n)
    ELSE <<[b |-> Head(s).b, n |-> m]>>

\* data[m:]
RECURSIVE Drop(_, _)
Drop(s, m) ==
    IF m = 0 \/ s = <<>> THEN s
    ELSE IF Head(s).n <= m THEN Drop(Tail(s), m - Head(s).n)
    ELSE <<[b |-> Head(s).b, n |-> Head(s).n - m]>> \o Tail(s)

\* s + t
Cat(s, t) ==
    IF s = <<>> THEN t
    ELSE IF t = <<>> THEN s
    ELSE IF s[Len(s)].b = t[1].b
         THEN SubSeq(s, 1, Len(s) - 1)
              \o <<[b |-> t[1].b, n |-> s[Len(s)].n + t[1].n]>> \o Tail(t)
    ELSE s \o t

RECURSIVE Times(_, _)
Times(s, m) == IF m = 0 THEN <<>> ELSE Cat(s, Times(s, m - 1))

\* stdin_data.replace(b'\n', b'\r\n')
RECURSIVE replace(_)
replace(s) ==
    IF s = <<>> THEN <<>>
    ELSE Cat(IF Head(s).b = "LF"
             THEN Times(<<[b |-> "CR", n |-> 1], [b |-> "LF", n |-> 1]>>, Head(s).n)
             ELSE <<Head(s)>>,
             replace(Tail(s)))

\* What a read of up to plen bytes can return when data is there: as much
\* as fits, or only the first run of the stream (a short read).
ReadSizes(s) ==
    LET full == IF BLen(s) < plen THEN BLen(s) ELSE plen
    IN  {full} \cup (IF s[1].n < full THEN {s[1].n} ELSE {})

\* The bytes readwrite hands to send for a chunk read from stdin.
netout_data_AlwaysCRLF(c) == replace(c)

netout_data(c) == IF opts.C THEN replace(c) ELSE c

IsUDP == protocol_name = "udp"

\* shutdown_rd, shutdown_wr: one half of the socket is shut down; an error
\* of the socket's shutdown is swallowed.
shutdown_rd_Noop(sh) == sh

shutdown_rd(sh) == [sh EXCEPT !.rd = TRUE]

shutdown_wr_Noop(sh) == sh

shutdown_wr(sh) == [sh EXCEPT !.wr = TRUE]

\* "if not stdin_eof: stdin_eof = time.time()": the time of the first EOF.
first_eof_Overwrite(eof, t) == t

first_eof(eof, t) == IF eof \in {-1, 0} THEN t ELSE eof

InRelay == step \in {"top", "netin", "stdin", "idle"}

\* time.time() moves on.  The loop reads the clock in its netin, stdin and
\* timeout steps; time that passes at the top of the loop is time that
\* passes before the netin step.
Tick ==
    /\ step \in {"netin", "stdin", "idle"}
    /\ now < MaxTime
    /\ now' = now + 1
    /\ UNCHANGED <<ivars, avars, pvars, dvars, pc, exc, retval>>
    /\ UNCHANGED <<opts, stdin, netin, stdout, netout, reads, recvs, shut, moved,
                   netin_eof, stdin_eof, idle_time, step>>

\* The top of the loop: "if netin_eof: break", then time.sleep(self.i).
RwTop ==
    /\ step = "top"
    /\ IF netin_eof
       THEN step' = "netin_eof_break" /\ UNCHANGED now
       ELSE /\ now + opts.i <= MaxTime
            /\ now' = now + opts.i
            /\ step' = "netin"
    /\ moved' = [rx |-> 0, tx |-> 0, eof |-> FALSE, rxerr |-> "", txerr |-> "",
                 stop |-> FALSE]
    /\ UNCHANGED <<ivars, avars, pvars, dvars, pc, exc, retval>>
    /\ UNCHANGED <<opts, stdin, netin, stdout, netout, reads, recvs, shut, netin_eof,
                   stdin_eof, idle_time>>

\* The errors of recv: a reset connection, a refused one.
RecvErrnos == {"ECONNRESET", "ECONNREFUSED"}

\* How readwrite leaves on an error of self.recv: NetcatUDPConnection.recv
\* turns it into StopReadWrite, which breaks the loop; on a TCP connection
\* "except (socket.error, OSError): return".
recv_failed_Raise(udp) == "recv_error_raise"

recv_failed_AlwaysReturn(udp) == "recv_error_return"

recv_failed(udp) == IF udp THEN "stop_break" ELSE "recv_error_return"

\* netin: the non-blocking recv(plen).  It gives None (nothing to read),
\* a chunk, which is written to stdout, or b'' (EOF: shutdown_rd, netin_eof
\* set); a socket error ends readwrite, by return on a TCP connection and
\* by StopReadWrite on a UDP connection.
RwNetin ==
    /\ step = "netin"
    /\ \E o \in {"none", "data", "eof", "error"} :
        CASE o = "none" ->
               /\ step' = "stdin"
               /\ UNCHANGED <<netin, recvs, stdout, moved, idle_time, shut, netin_eof>>
          [] o = "data" ->
               /\ netin # <<>>
               /\ \E m \in ReadSizes(netin) :
                   /\ netin' = Drop(netin, m)
                   /\ recvs' = Append(recvs, Take(netin, m))
                   /\ stdout' = Append(stdout, Take(netin, m))
                   /\ moved' = [moved EXCEPT !.rx = @ + m]
               /\ idle_time' = now
               /\ step' = "stdin"
               /\ UNCHANGED <<shut, netin_eof>>
          [] o = "eof" ->
               /\ netin = <<>>
               /\ shut' = shutdown_rd(shut)
               /\ netin_eof' = TRUE
               /\ step' = "stdin"
               /\ UNCHANGED <<netin, recvs, stdout, moved, idle_time>>
          [] o = "error" ->
               /\ \E e \in RecvErrnos : moved' = [moved EXCEPT !.rxerr = e]
               /\ step' = recv_failed(IsUDP)
               /\ UNCHANGED <<netin, recvs, stdout, idle_time, shut, netin_eof>>
    /\ UNCHANGED <<ivars, avars, pvars, dvars, pc, exc, retval>>
    /\ UNCHANGED <<opts, stdin, netout, reads, stdin_eof, now>>

\* stdin, unless d is set: read(plen) gives None, a chunk, which is sent
\* (with C, after the CRLF translation), or b'' (EOF); the input source may
\* raise StopReadWrite.  With d the rest of the iteration is skipped.
RwStdin ==
    /\ step = "stdin"
    /\ IF opts.d
       THEN /\ step' = "top"
            /\ UNCHANGED <<stdin, reads, netout, moved, idle_time, stdin_eof, shut,
                           exc>>
       ELSE \E o \in {"none", "data", "eof", "stop"} :
           CASE o = "none" ->
                  /\ step' = "idle"
                  /\ UNCHANGED <<stdin, reads, netout, moved, idle_time, stdin_eof,
                                 shut, exc>>
             [] o = "data" ->
                  /\ stdin # <<>>
                  /\ \E m \in ReadSizes(stdin), e \in {"ok"} \cup SendErrnos :
                      /\ stdin' = Drop(stdin, m)
                      /\ reads' = Append(reads, Take(stdin, m))
                      /\ netout' = Append(netout, netout_data(Take(stdin, m)))
                      /\ IF e = "ok"
                         THEN /\ moved' = [moved EXCEPT !.tx = @ + m]
                              /\ idle_time' = now
                              /\ step' = "idle"
                              /\ UNCHANGED exc
                         ELSE /\ moved' = [moved EXCEPT !.tx = @ + m, !.txerr = e]
                              /\ step' = IF send_failed(e) = "return"
                                         THEN "broken_pipe_return"
                                         ELSE "send_error_raise"
                              /\ exc' = IF send_failed(e) = "return" THEN exc
                                        ELSE [type |-> "OSError",
                                              msg |-> "str(socket_err)",
                                              at |-> "relay"]
                              /\ UNCHANGED idle_time
                  /\ UNCHANGED <<stdin_eof, shut>>
             [] o = "eof" ->
                  /\ stdin = <<>>
                  /\ stdin_eof' = first_eof(stdin_eof, now)
                  /\ shut' = IF opts.q = 0 THEN shutdown_wr(shut) ELSE shut
                  /\ moved' = [moved EXCEPT !.eof = TRUE]
                  /\ step' = IF opts.q > 0 /\ now - stdin_eof' >= opts.q
                             THEN "quit_return" ELSE "idle"
                  /\ UNCHANGED <<stdin, reads, netout, idle_time, exc>>
             [] o = "stop" ->
                  /\ moved' = [moved EXCEPT !.stop = TRUE]
                  /\ step' = "stop_break"
                  /\ UNCHANGED <<stdin, reads, netout, idle_time, stdin_eof, shut,
                                 exc>>
    /\ UNCHANGED <<ivars, avars, pvars, dvars, pc, retval>>
    /\ UNCHANGED <<opts, netin, stdout, recvs, netin_eof, now>>

\* "if self.timeout is not None: ... if idle_time_elapsed >= self.timeout"
\* (w = -1: None).
timed_out_Strict(w, elapsed) == w # -1 /\ elapsed > w

timed_out(w, elapsed) == w # -1 /\ elapsed >= w

\* The idle timeout, checked at the end of the "if not self.d" block.
RwIdle ==
    /\ step = "idle"
    /\ step' = IF timed_out(opts.w, now - idle_time) THEN "timeout_return" ELSE "top"
    /\ UNCHANGED <<ivars, avars, pvars, dvars, pc, exc, retval>>
    /\ UNCHANGED <<opts, stdin, netin, stdout, netout, reads, recvs, shut, moved,
                   netin_eof, stdin_eof, idle_time, now>>

\* A connection at the call of readwrite: idle_time = time.time().
OptsSet == [C : BOOLEAN, d : BOOLEAN, i : {0, 1}, q : {0, 1}, w : {-1, 0, 1}]

InitRelay ==
    /\ kind \in {"TCPClient", "UDPClient"}
    /\ pync = FALSE
    /\ v = FALSE
    /\ z = FALSE
    /\ x = FALSE
    /\ k = FALSE
    /\ port = <<1>>
    /\ iterports = 1
    /\ socks = <<NewSock>>
    /\ conns = <<NewConn(1, 1)>>
    /\ gens = <<>>
    /\ running = 0
    /\ pending = <<>>
    /\ arrived = 0
    /\ udpPeer = 0
    /\ srvClosed = FALSE
    /\ dials = <<>>
    /\ stderr = <<>>
    /\ out = <<>>
    /\ status = 1
    /\ argv = NoArgs
    /\ NoParse
    /\ NoProc
    /\ NoDial
    /\ pc = "readwrite"
    /\ exc = NoExc
    /\ retval = -1
    /\ opts \in OptsSet
    /\ stdin \in Streams(MaxRuns)
    /\ netin \in Streams(MaxNetRuns)
    /\ stdout = <<>>
    /\ netout = <<>>
    /\ reads = <<>>
    /\ recvs = <<>>
    /\ shut = [rd |-> FALSE, wr |-> FALSE]
    /\ moved = [rx |-> 0, tx |-> 0, eof |-> FALSE, rxerr |-> "", txerr |-> "",
                stop |-> FALSE]
    /\ netin_eof = FALSE
    /\ stdin_eof = -1
    /\ now = 1
    /\ idle_time = 1
    /\ step = "top"

NextRelay ==
    \/ Tick
    \/ RwTop
    \/ RwNetin
    \/ RwStdin
    \/ RwIdle

SpecRelay == InitRelay /\ [][NextRelay]_vars

(***************************************************************************)
(* NetcatArgumentParser on the values of a command line.                   *)
(***************************************************************************)
MaxLow == 2         \* the low port numbers in tokens are 0..MaxLow
MaxTokens == 2      \* port tokens on a command line
MaxTosLen == 4      \* characters of a -T word

TokenInts == (0..MaxLow) \cup {65535, 65536}

Abs(n) == IF n < 0 THEN 0 - n ELSE n

Tokens ==
    {IntTok(n) : n \in TokenInts}
    \cup {RangeTok(q[1], q[2]) :
              q \in {r \in TokenInts \X TokenInts : Abs(r[1] - r[2]) <= MaxLow}}
    \cup {NameTok}

\* NetcatArgumentParser._valid_port
valid_port_NoUpper(n) == 1 <= n

valid_port(n) == 1 <= n /\ n <= 65535

\* compat.range(start, stop), and the ValueError a type function raises.
range(start, stop) == [start |-> start, stop |-> stop]

ValueError == [start |-> 0, stop |-> 0]

\* NetcatArgumentParser.port: "start-end" splits into two integers, which
\* are swapped when start > end; anything else goes through int(value).
parse_port(t) ==
    IF t.kind = "range"
    THEN LET start_port == IF t.a > t.b THEN t.b ELSE t.a
             end_port == IF t.a > t.b THEN t.a ELSE t.b
         IN  IF valid_port(start_port) /\ valid_port(end_port)
             THEN range(start_port, end_port + 1)
             ELSE ValueError
    ELSE IF t.kind = "int" /\ valid_port(t.a)
         THEN range(t.a, t.a + 1)
         ELSE ValueError

\* NetcatArgumentParser.source_port (0: ValueError)
source_port(n) == IF valid_port(n) THEN n ELSE 0

\* TOSKEYWORDS
TOSKEYWORDS ==
    ("af11" :> 40) @@ ("af12" :> 48) @@ ("af21" :> 56) @@ ("af22" :> 80) @@
    ("af23" :> 88) @@ ("af31" :> 104) @@ ("af32" :> 112) @@ ("af33" :> 120) @@
    ("af41" :> 136) @@ ("af42" :> 144) @@ ("af43" :> 152) @@
    ("critical" :> 160) @@ ("cs0" :> 0) @@ ("cs1" :> 32) @@ ("cs2" :> 64) @@
    ("cs3" :> 96) @@ ("cs4" :> 128) @@ ("cs5" :> 160) @@ ("cs6" :> 192) @@
    ("cs7" :> 224) @@ ("ef" :> 184) @@ ("inetcontrol" :> 192) @@
    ("lowcost" :> 2) @@ ("lowdelay" :> 16) @@ ("netcontrol" :> 224) @@
    ("reliability" :> 4) @@ ("throughput" :> 8)

\* The characters of the -T words that are not keywords.
Chars == {"0", "1", "2", "5", "6", "f", "x", "-"}

\* A -T word: a keyword of the table, or a text of characters; kw is
\* "none" when -T is not given.
NoT == [kw |-> "none", text |-> <<>>]
KeywordT(name) == [kw |-> name, text |-> <<>>]
TextT(text) == [kw |-> "", text |-> text]
TWords ==
    {KeywordT(name) : name \in DOMAIN TOSKEYWORDS}
    \cup {TextT(text) : text \in SeqsUpTo(Chars, MaxTosLen)}

\* The value of a digit in the base, -1 when it is not a digit of the base.
digit(ch, base) ==
    LET d == CASE ch = "0" -> 0 [] ch = "1" -> 1 [] ch = "2" -> 2
               [] ch = "5" -> 5 [] ch = "6" -> 6 [] ch = "f" -> 15
               [] OTHER -> -1
    IN  IF d < base THEN d ELSE -1

\* The digits of a text read in the base.
RECURSIVE digits(_, _)
digits(text, base) ==
    IF text = <<>> THEN 0
    ELSE digits(SubSeq(text, 1, Len(text) - 1), base) * base
         + digit(text[Len(text)], base)

\* int(value, base) on a text: a sign, for base 16 a 0x prefix, then at
\* least one digit of the base.  ok is FALSE for the ValueError.
int(text, base) ==
    LET neg == text # <<>> /\ text[1] = "-"
        unsigned == IF neg THEN Tail(text) ELSE text
        prefixed == /\ base = 16 /\ Len(unsigned) >= 2
                    /\ unsigned[1] = "0" /\ unsigned[2] = "x"
        body == IF prefixed THEN SubSeq(unsigned, 3, Len(unsigned)) ELSE unsigned
    IN  IF body = <<>> \/ \E j \in 1..Len(body) : digit(body[j], base) = -1
        THEN [ok |-> FALSE, n |-> 0]
        ELSE [ok |-> TRUE,
              n |-> IF neg THEN 0 - digits(body, base) ELSE digits(body, base)]

\* NetcatArgumentParser.toskeyword (-1: ValueError)
toskeyword_NoLimit(t) ==
    IF t.kw \in DOMAIN TOSKEYWORDS THEN TOSKEYWORDS[t.kw]
    ELSE LET value == IF int(t.text, 10).ok THEN int(t.text, 10)
                      ELSE int(t.text, 16)
         IN  IF value.ok /\ 0 <= value.n THEN value.n ELSE -1

toskeyword(t) ==
    IF t.kw \in DOMAIN TOSKEYWORDS THEN TOSKEYWORDS[t.kw]
    ELSE LET value == IF int(t.text, 10).ok THEN int(t.text, 10)
                      ELSE int(t.text, 16)
         IN  IF value.ok /\ 0 <= value.n /\ value.n <= 255 THEN value.n ELSE -1

\* sorted(values, key=lambda r: r.start): a stable sort.
RECURSIVE Insert(_, _)
Insert(r, rs) ==
    IF rs = <<>> THEN <<r>>
    ELSE IF rs[Len(rs)].start <= r.start THEN Append(rs, r)
    ELSE Append(Insert(r, SubSeq(rs, 1, Len(rs) - 1)), rs[Len(rs)])

sorted_Unsorted(values) == values

RECURSIVE sorted(_)
sorted(values) ==
    IF values = <<>> THEN <<>>
    ELSE Insert(values[Len(values)], sorted(SubSeq(values, 1, Len(values) - 1)))

\* What iterating a range yields.
RECURSIVE Ascending(_, _)
Ascending(start, stop) ==
    IF start >= stop THEN <<>> ELSE <<start>> \o Ascending(start + 1, stop)

\* itertools.chain(*ranges), by what it yields.
RECURSIVE chain(_)
chain(rs) ==
    IF rs = <<>> THEN <<>>
    ELSE Ascending(rs[1].start, rs[1].stop) \o chain(Tail(rs))

\* NetcatPortAction.__call__ on the ranges of the port tokens.
NetcatPortAction(values) ==
    IF values = <<>> THEN PortNone
    ELSE IF Len(values) = 1 /\ values[1].start = values[1].stop - 1
         THEN PortInt(values[1].start)
         ELSE PortChain(chain(sorted(values)))

\* A command line by its values.  l, k, z, p, T: the options given (p: -1
\* when not given); dest, port: the positional words.  With port words
\* given, the parser only looks at whether dest is empty.  The -T words
\* are tried on "dest 1" and "-l dest 1", and -u on the command lines with
\* no port word, the port 1 or the ports 1-2.
CmdLines ==
    [l : BOOLEAN, u : {FALSE}, k : BOOLEAN, z : BOOLEAN, p : {-1, 0, 1},
     T : {NoT}, dest : {EmptyTok} \cup Tokens, port : {<<>>}]
    \cup [l : BOOLEAN, u : {FALSE}, k : BOOLEAN, z : BOOLEAN, p : {-1, 0, 1},
          T : {NoT}, dest : {EmptyTok, NameTok},
          port : SeqsUpTo(Tokens, MaxTokens) \ {<<>>}]
    \cup [l : BOOLEAN, u : {FALSE}, k : {FALSE}, z : {FALSE}, p : {-1},
          T : TWords, dest : {NameTok}, port : {<<IntTok(1)>>}]
    \cup [l : BOOLEAN, u : BOOLEAN, k : BOOLEAN, z : BOOLEAN, p : {-1, 0, 1},
          T : {NoT}, dest : {EmptyTok, NameTok},
          port : {<<>>, <<IntTok(1)>>, <<RangeTok(1, 2)>>}]

\* The argument groups the parser's declarations give.
GeneralKeys ==
    {"_4", "_6", "b", "C", "D", "d", "I", "i", "n", "O", "p", "q", "T", "u",
     "v", "w", "dest", "port"}
ClientKeys == {"P", "r", "s", "X", "x", "z"}
ServerKeys == {"k", "l"}

\* type=self.port on every port word of c.
PortRanges(c) == [j \in 1..Len(c.port) |-> parse_port(c.port[j])]

\* A type function raises ValueError: the parser's error exit.
ArgError(c) ==
    \/ \E j \in 1..Len(c.port) : PortRanges(c)[j] = ValueError
    \/ c.p # -1 /\ source_port(c.p) = 0
    \/ c.T # NoT /\ toskeyword(c.T) = -1

\* group_parse_args on a command line whose values the type functions
\* accept: one namespace per group (p: 0 is None; arguments that are not
\* varied keep their default).
grouped_args(c) ==
    [general |->
        [key \in GeneralKeys |->
            CASE key = "dest" -> c.dest
              [] key = "port" -> NetcatPortAction(PortRanges(c))
              [] key = "p" -> (IF c.p = -1 THEN 0 ELSE source_port(c.p))
              [] key = "T" -> (IF c.T = NoT THEN "default" ELSE toskeyword(c.T))
              [] key = "u" -> c.u
              [] OTHER -> "default"],
     client |-> [key \in ClientKeys |-> IF key = "z" THEN c.z ELSE "default"],
     server |-> [key \in ServerKeys |-> IF key = "l" THEN c.l ELSE c.k]]

\* dict.update
update(f, g) ==
    [key \in DOMAIN f \cup DOMAIN g |-> IF key \in DOMAIN g THEN g[key] ELSE f[key]]

\* The row of parse_args' decision table for the general namespace args.
TableRow(args, l) ==
    parse_args([l |-> l,
                dest |-> args["dest"] # EmptyTok,
                port |-> IF args["port"] # PortNone THEN <<1>> ELSE <<>>,
                p |-> args["p"] # 0])

\* "pync -l 8000": args.port = args.dest, args.dest = '', and the port goes
\* through the parser again.
reparsed_KeepDest(args) ==
    [args EXCEPT !["port"] = NetcatPortAction(<<parse_port(args["dest"])>>)]

reparsed(args) ==
    [args EXCEPT !["port"] = NetcatPortAction(<<parse_port(args["dest"])>>),
                 !["dest"] = EmptyTok]

\* The group whose values are merged into the result.
mode_args_Both(g) == update(g.client, g.server)

mode_args(g) == IF g.server["l"] THEN g.server ELSE g.client

\* How parse_args leaves on c: "none" when it returns.
ParseExit(c) ==
    IF ArgError(c) THEN "error"
    ELSE LET g == grouped_args(c)
             row == TableRow(g.general, g.server["l"])
         IN  CASE row = "usage" -> "usage"
               [] row = "reparse" /\ parse_port(c.dest) = ValueError -> "error"
               [] OTHER -> "none"

\* The Namespace parse_args returns on c.
Namespace(c) ==
    LET g == grouped_args(c)
        args == IF TableRow(g.general, g.server["l"]) = "reparse"
                THEN reparsed(g.general) ELSE g.general
    IN  update(args, mode_args(g))

(***************************************************************************)
(* Netcat.from_args on a command line: parse_args, then Netcat.__new__     *)
(* and the constructor it selects.  pc: "args", then "exited" (the parser  *)
(* exited), or "parsed" and then "built" or "failed".                      *)
(***************************************************************************)
\* A type function rejected a value.
ArgsError ==
    /\ pc = "args"
    /\ ParseExit(argv) = "error"
    /\ exc' = SystemExit("error")
    /\ pc' = "exited"
    /\ UNCHANGED <<ivars, avars, pvars, dvars, retval, lvars>>

\* print_usage, exit.
ArgsUsage ==
    /\ pc = "args"
    /\ ParseExit(argv) = "usage"
    /\ exc' = SystemExit("usage")
    /\ pc' = "exited"
    /\ UNCHANGED <<ivars, avars, pvars, dvars, retval, lvars>>

ArgsParse ==
    /\ pc = "args"
    /\ ParseExit(argv) = "none"
    /\ ns' = Namespace(argv)
    /\ pc' = "parsed"
    /\ UNCHANGED <<ivars, argv, addr, srcport, pvars, dvars, exc, retval, lvars>>

\* A keyword argument of the namespace, or the default of the signature.
kwarg(key, default) == IF key \in DOMAIN ns THEN ns[key] ELSE default

\* NetcatServer.__init__: the empty dest becomes 0.0.0.0.
Wildcard == [kind |-> "0.0.0.0", a |-> 0, b |-> 0]

server_dest(dest) == IF dest = EmptyTok THEN Wildcard ELSE dest

\* Netcat.__new__: the class it instantiates.
Netcat_new_PListens(l, u, p) ==
    IF l \/ p # 0 THEN (IF u THEN "UDPServer" ELSE "TCPServer")
    ELSE (IF u THEN "UDPClient" ELSE "TCPClient")

Netcat_new(l, u, p) ==
    IF l THEN (IF u THEN "UDPServer" ELSE "TCPServer")
    ELSE (IF u THEN "UDPClient" ELSE "TCPClient")

\* Netcat.__new__ without l: the client gets p=p.  NetcatClient.__init__
\* wraps a single port in a list; no socket is made yet.
ArgsNewClient ==
    /\ pc = "parsed"
    /\ Netcat_new(kwarg("l", FALSE), kwarg("u", FALSE), kwarg("p", 0)) \in ClientKinds
    /\ kind' = Netcat_new(kwarg("l", FALSE), kwarg("u", FALSE), kwarg("p", 0))
    /\ srcport' = kwarg("p", 0)
    /\ z' = kwarg("z", FALSE)
    /\ port' = IF ns["port"].type = "int" THEN <<ns["port"].n>> ELSE ns["port"].ports
    /\ pc' = "built"
    /\ UNCHANGED <<pync, v, x, k, iterports, socks, conns, gens, running, pending,
                   arrived, udpPeer, srvClosed, dials, stderr, out, status>>
    /\ UNCHANGED <<argv, ns, addr, pvars, dvars, exc, retval, lvars>>

\* Netcat.__new__ with l: "if p is not None: port = p".
server_port_Positional(p, positional) ==
    IF positional # PortNone THEN positional ELSE PortInt(p)

server_port(p, positional) == IF p # 0 THEN PortInt(p) ELSE positional

\* Netcat.__new__ with l: p, when given, is the port.  NetcatServer.__init__
\* keeps an int port and takes the repr of an iterator, which getaddrinfo
\* in _server_bind rejects; with an int port the socket is bound to
\* (self.dest, self.port).
ArgsNewServer ==
    /\ pc = "parsed"
    /\ Netcat_new(kwarg("l", FALSE), kwarg("u", FALSE), kwarg("p", 0)) \in ServerKinds
    /\ kind' = Netcat_new(kwarg("l", FALSE), kwarg("u", FALSE), kwarg("p", 0))
    /\ k' = kwarg("k", FALSE)
    /\ LET port0 == server_port(ns["p"], ns["port"]) IN
       IF port0.type = "int"
       THEN /\ port' = <<port0.n>>
            /\ addr' = [dest |-> server_dest(ns["dest"]), port |-> port0]
            /\ socks' = <<NewSock>>
            /\ pc' = "built"
            /\ UNCHANGED exc
       ELSE /\ socks' = CloseSock(<<NewSock>>, ServSock)
            /\ exc' = ConstructExc("gaierror")
            /\ pc' = "failed"
            /\ UNCHANGED <<port, addr>>
    /\ UNCHANGED <<pync, v, z, x, iterports, conns, gens, running, pending,
                   arrived, udpPeer, srvClosed, dials, stderr, out, status>>
    /\ UNCHANGED <<argv, ns, srcport, pvars, dvars, retval, lvars>>

InitArgs ==
    /\ kind = "none"
    /\ pync = FALSE
    /\ v = FALSE
    /\ z = FALSE
    /\ x = FALSE
    /\ k = FALSE
    /\ port = <<>>
    /\ iterports = 0
    /\ socks = <<>>
    /\ conns = <<>>
    /\ gens = <<>>
    /\ running = 0
    /\ pending = <<>>
    /\ arrived = 0
    /\ udpPeer = 0
    /\ srvClosed = FALSE
    /\ dials = <<>>
    /\ stderr = <<>>
    /\ out = <<>>
    /\ status = 1
    /\ argv \in CmdLines
    /\ NoParse
    /\ NoProc
    /\ NoDial
    /\ pc = "args"
    /\ exc = NoExc
    /\ retval = -1
    /\ NoRelay

NextArgs ==
    \/ ArgsError
    \/ ArgsUsage
    \/ ArgsParse
    \/ ArgsNewClient
    \/ ArgsNewServer

SpecArgs == InitArgs /\ [][NextArgs]_vars

(***************************************************************************)
(* The process wrappers (process.py): a child process writes to a pipe and *)
(* exits while the parent calls read on the wrapper's stdout.  The child   *)
(* runs concurrently with the parent, so its steps interleave with the     *)
(* two steps of a read: the look at the pipe, then the look at the         *)
(* process.                                                                *)
(***************************************************************************)
MaxChildBytes == 2  \* bytes the child writes in all
MaxReadSize == 2    \* n of read(n)
MaxReads == 3       \* calls of read

RECURSIVE Sum(_)
Sum(q) == IF q = <<>> THEN 0 ELSE Head(q) + Sum(Tail(q))

\* The child's write of w bytes: bytes join the pipe of the command wrapper,
\* send_bytes puts one message on the connection of the python wrapper.
written(q, w) ==
    IF wrapper = "command" THEN <<Sum(q) + w>> ELSE Append(q, w)

\* self._stdout.read(n) takes up to n bytes; self._conn.recv_bytes() takes
\* one message.
taken(q, n) ==
    IF wrapper = "command" THEN (IF Sum(q) < n THEN Sum(q) ELSE n) ELSE Head(q)

rest(q, n) ==
    IF wrapper = "command"
    THEN (IF Sum(q) - taken(q, n) = 0 THEN <<>> ELSE <<Sum(q) - taken(q, n)>>)
    ELSE Tail(q)

\* self._proc.poll() is not None; not self._proc.is_alive()
exited_Never == FALSE
exited == ~child.alive

\* What a read call gave: res is "data", "none" or "ProcessTerminated";
\* n the bytes returned; left the bytes in the pipe and gone whether the
\* process had exited when the call ended; drained whether the process
\* had exited and the pipe was empty when the call began.
ReadResult(res, n, q, drained) ==
    [res |-> res, n |-> n, left |-> Sum(q), gone |-> ~child.alive,
     drained |-> drained]

\* The child writes.
ChildWrite ==
    /\ wrapper # "none"
    /\ child.alive
    /\ \E w \in 1..child.towrite :
        /\ pipe' = written(pipe, w)
        /\ child' = [child EXCEPT !.towrite = @ - w]
    /\ UNCHANGED <<ivars, avars, dvars, wrapper, reader, preads, pc, exc, retval, lvars>>

\* The child exits.
ChildExit ==
    /\ wrapper # "none"
    /\ child.alive
    /\ child' = [child EXCEPT !.alive = FALSE]
    /\ UNCHANGED <<ivars, avars, dvars, wrapper, pipe, reader, preads, pc, exc, retval, lvars>>

\* read, first step: data = self._stdout.read(n), or self._conn.poll() and
\* recv_bytes(); data is returned when there is some.
ReadPipe ==
    /\ wrapper # "none"
    /\ reader.at = "idle"
    /\ Len(preads) < MaxReads
    /\ \E n \in 1..MaxReadSize :
        IF pipe # <<>>
        THEN /\ pipe' = rest(pipe, n)
             /\ preads' = Append(preads,
                              ReadResult("data", taken(pipe, n), rest(pipe, n), FALSE))
             /\ UNCHANGED reader
        ELSE /\ reader' = [at |-> "check", n |-> n, drained |-> ~child.alive]
             /\ UNCHANGED <<pipe, preads>>
    /\ UNCHANGED <<ivars, avars, dvars, wrapper, child, pc, exc, retval, lvars>>

\* read, second step: raise ProcessTerminated when the process has exited,
\* else the call returns None.
ReadCheck ==
    /\ wrapper # "none"
    /\ reader.at = "check"
    /\ preads' = Append(preads,
                     ReadResult(IF exited THEN "ProcessTerminated" ELSE "none",
                                0, pipe, reader.drained))
    /\ reader' = [at |-> "idle", n |-> 0, drained |-> FALSE]
    /\ UNCHANGED <<ivars, avars, dvars, wrapper, child, pipe, pc, exc, retval, lvars>>

InitProc ==
    /\ kind = "none"
    /\ pync = FALSE
    /\ v = FALSE
    /\ z = FALSE
    /\ x = FALSE
    /\ k = FALSE
    /\ port = <<>>
    /\ iterports = 0
    /\ socks = <<>>
    /\ conns = <<>>
    /\ gens = <<>>
    /\ running = 0
    /\ pending = <<>>
    /\ arrived = 0
    /\ udpPeer = 0
    /\ srvClosed = FALSE
    /\ dials = <<>>
    /\ stderr = <<>>
    /\ out = <<>>
    /\ status = 1
    /\ argv = NoArgs
    /\ NoParse
    /\ wrapper \in {"command", "python"}
    /\ child \in [alive : {TRUE}, towrite : 0..MaxChildBytes]
    /\ pipe = <<>>
    /\ reader = [at |-> "idle", n |-> 0, drained |-> FALSE]
    /\ preads = <<>>
    /\ NoDial
    /\ pc = "proc"
    /\ exc = NoExc
    /\ retval = -1
    /\ NoRelay

NextProc ==
    \/ ChildWrite
    \/ ChildExit
    \/ ReadPipe
    \/ ReadCheck

SpecProc == InitProc /\ [][NextProc]_vars

(***************************************************************************)
(* The construction of an object and its first connection, by the calls    *)
(* made: NetcatContext.__init__ with its _init_kwargs, and for a client    *)
(* one port attempt (NetcatClient._create_connection), for a server one    *)
(* accepted peer.  kind: the class constructed; attempt.kw: a keyword      *)
(* option that no class recognizes was passed; x: a proxy is configured;   *)
(* attempt.s: a source address was given; srcport: the source port p (0:   *)
(* not given); attempt.w: a timeout is set.                                *)
(***************************************************************************)
WrapperKinds == {"Context", "Connection"}

\* _init_kwargs with the keyword options nobody took: NetcatContext raises
\* ValueError when there are any; the override of NetcatIterator keeps them
\* in _conn_kwargs for the connections it will create.
init_kwargs_Strict(cls, kw) == IF kw THEN "ValueError" ELSE "ok"

init_kwargs(cls, kw) ==
    IF cls \in ClientKinds \cup ServerKinds THEN "ok"
    ELSE IF kw THEN "ValueError" ELSE "ok"
SourcePorts == {0, 1}

Goes(c, to) == attempt' = [attempt EXCEPT !.calls = attempt.calls \o c, !.at = to]

Fails(c, e) ==
    attempt' = [attempt EXCEPT !.calls = attempt.calls \o c, !.at = "raised", !.res = e]

\* _client_bind after the socket options: with a source address or a source
\* port the source is resolved; the bind call follows in either case.
client_bind(src, p) ==
    (IF src \/ p # 0 THEN <<"getaddrinfo(source)">> ELSE <<>>) \o <<"bind">>

\* _client_connect around the connect call.
client_connect(w) ==
    (IF w THEN <<"settimeout(w)">> ELSE <<>>) \o <<"connect">>

DialFrame ==
    UNCHANGED <<kind, pync, v, z, x, k, port, iterports, conns, gens, running,
                pending, arrived, udpPeer, srvClosed, dials, stderr, out, status,
                avars, pvars, pc, exc, retval, lvars>>

\* cls(...): NetcatContext.__init__ ends with _init_kwargs; a connection
\* then wraps the socket it was given, a client stores its options, a
\* server creates, binds and activates its socket.
DialConstruct ==
    /\ attempt.at = "new"
    /\ IF init_kwargs(kind, attempt.kw) # "ok"
       THEN Fails(<<"_init_kwargs">>, init_kwargs(kind, attempt.kw))
            /\ UNCHANGED socks
       ELSE CASE kind \in WrapperKinds ->
                   Goes(<<"_init_kwargs">>, "built") /\ UNCHANGED socks
              [] kind \in ClientKinds ->
                   Goes(<<"_init_kwargs">>, "start") /\ UNCHANGED socks
              [] kind \in ServerKinds ->
                   /\ Goes(<<"_init_kwargs", "socket", "sockopts", "bind">>
                               \o (IF kind = "TCPServer" THEN <<"listen">> ELSE <<>>),
                           "listening")
                   /\ socks' = Append(socks, NewSock)
    /\ DialFrame

\* A server's next_connection with a peer waiting: _get_request accepts
\* (TCP: a new socket) or receives and connects the bound socket (UDP).
DialAccept ==
    /\ attempt.at = "listening"
    /\ IF kind = "TCPServer"
       THEN Goes(<<"accept">>, "connected") /\ socks' = Append(socks, NewSock)
       ELSE Goes(<<"recvfrom", "connect">>, "connected") /\ UNCHANGED socks
    /\ DialFrame

\* addrinfo = self._getaddrinfo(dest, port)
DialResolve ==
    /\ attempt.at = "start"
    /\ \/ Goes(<<"getaddrinfo(dest)">>, "init")
       \/ Fails(<<"getaddrinfo(dest)">>, "gaierror")
    /\ UNCHANGED socks
    /\ DialFrame

\* sock = self._client_init(): a proxying socket when x is set.
DialInit ==
    /\ attempt.at = "init"
    /\ IF x
       THEN \/ /\ Goes(<<"getaddrinfo(proxy)", "socksocket", "set_proxy">>, "bind")
               /\ socks' = Append(socks, NewSock)
            \/ /\ Fails(<<"getaddrinfo(proxy)">>, "gaierror")
               /\ UNCHANGED socks
       ELSE /\ Goes(<<"socket">>, "bind")
            /\ socks' = Append(socks, NewSock)
    /\ DialFrame

\* self._client_bind(sock)
DialBind ==
    /\ attempt.at = "bind"
    /\ LET c == client_bind(attempt.s, srcport) IN
       \/ Goes(<<"sockopts">> \o c, "connect")
       \/ Fails(<<"sockopts">> \o c, "sockerr")
       \/ /\ c[1] # "bind"
          /\ Fails(<<"sockopts", c[1]>>, "gaierror")
    /\ UNCHANGED socks
    /\ DialFrame

\* self._client_connect(sock, addr)
DialConnect ==
    /\ attempt.at = "connect"
    /\ LET c == client_connect(attempt.w) IN
       \/ Goes(c \o <<"settimeout(None)">>, "connected")
       \/ \E e \in CreateOutcomes \ {"ok", "gaierror"} : Fails(c, e)
    /\ UNCHANGED socks
    /\ DialFrame

\* nc_conn = self._init_connection(sock); return nc_conn
\* (self.Connection(sock, **self._conn_kwargs): the connection's
\* NetcatContext.__init__ meets the options the iterator kept.)
DialReturn ==
    /\ attempt.at = "connected"
    /\ IF init_kwargs("Connection", attempt.kw) # "ok"
       THEN Fails(<<"Connection", "_init_kwargs">>, init_kwargs("Connection", attempt.kw))
       ELSE attempt' = [attempt EXCEPT !.calls = @ \o <<"Connection", "_init_kwargs">>,
                                       !.at = "returned", !.res = "ok"]
    /\ UNCHANGED socks
    /\ DialFrame

InitDial ==
    /\ kind \in WrapperKinds \cup ClientKinds \cup ServerKinds
    /\ pync = FALSE
    /\ v = FALSE
    /\ z = FALSE
    /\ x \in BOOLEAN
    /\ k = FALSE
    /\ port = <<1>>
    /\ iterports = 1
    /\ socks = IF kind = "Connection" THEN <<NewSock>> ELSE <<>>
    /\ conns = <<>>
    /\ gens = <<>>
    /\ running = 0
    /\ pending = <<>>
    /\ arrived = 0
    /\ udpPeer = 0
    /\ srvClosed = FALSE
    /\ dials = <<>>
    /\ stderr = <<>>
    /\ out = <<>>
    /\ status = 1
    /\ argv = NoArgs
    /\ ns = <<>>
    /\ addr = [dest |-> EmptyTok, port |-> PortNone]
    /\ srcport \in SourcePorts
    /\ NoProc
    /\ attempt \in [s : BOOLEAN, w : BOOLEAN, kw : BOOLEAN, at : {"new"},
                     calls : {<<>>}, res : {""}]
    /\ pc = "dial"
    /\ exc = NoExc
    /\ retval = -1
    /\ NoRelay

NextDial ==
    \/ DialConstruct
    \/ DialAccept
    \/ DialResolve
    \/ DialInit
    \/ DialBind
    \/ DialConnect
    \/ DialReturn

SpecDial == InitDial /\ [][NextDial]_vars

(***************************************************************************)
(* Properties of the iteration protocol (specification Spec).              *)
(***************************************************************************)
OkDials == SelectSeq(dials, LAMBDA d : d.outcome = "ok")
RefusedDials == SelectSeq(dials, LAMBDA d : d.outcome \in Refusals)
Lines(m) == SelectSeq(stderr, LAMBDA l : l.msg = m)
Yields == SelectSeq(out, LAMBDA r : r.res = "yield")
Delivered == SelectSeq(out, LAMBDA r : r.res \in {"yield", "return"})
IsOpen(c) == socks[conns[c].sock].open

\* Every call so far went through a generator of iter_connections.
OnlyIterated == \A i \in 1..Len(out) : out[i].via # 0
\* Every port dialed so far either accepted or was actively refused.
OnlyAcceptOrRefuse == \A i \in 1..Len(dials) : dials[i].outcome \in {"ok"} \cup Refusals
Exhausted == iterports = Len(port)
AllFinished == gens # <<>> /\ \A g \in 1..Len(gens) : gens[g].st = "finished"

\* C1: a client without zero-I/O mode that is iterated over ports which
\* either accept or are actively refused dials the port list in order, one
\* attempt per entry; every refused attempt writes (verbose on) one refusal
\* line naming that port; nothing but connections and the end of the
\* iteration reaches the caller; and the connections yielded are exactly
\* those of the accepting ports, in port-list order, each open while the
\* caller holds it.
C1_RefusedPortsSkipped ==
    (IsClient /\ ~z /\ OnlyIterated /\ OnlyAcceptOrRefuse) =>
        /\ Len(dials) = iterports
        /\ \A i \in 1..Len(dials) : dials[i].idx = i /\ dials[i].port = port[i]
        /\ v => /\ Len(Lines("refused")) = Len(RefusedDials)
                /\ \A i \in 1..Len(RefusedDials) :
                      Lines("refused")[i] = v_conn_refused("dest", RefusedDials[i].port)
        /\ \A i \in 1..Len(out) : out[i].res \in {"yield", "StopIteration"}
        /\ Len(Yields) = Len(OkDials)
        /\ \A i \in 1..Len(Yields) :
              /\ Yields[i].arg = i
              /\ conns[i].peer = OkDials[i].port
        /\ \A g \in 1..Len(gens) :
              (gens[g].st = "suspended" /\ ~conns[gens[g].conn].userClosed)
                  => IsOpen(gens[g].conn)

\* C1 witness: ports <<1, 2>>, port 1 refused and port 2 accepting, iterated
\* to the end with verbose on: one connection, to port 2.
C1_Witness ==
    /\ IsClient /\ ~z /\ v /\ OnlyIterated
    /\ port = <<1, 2>>
    /\ Len(dials) = 2
    /\ dials[1].outcome \in Refusals
    /\ dials[2].outcome = "ok"
    /\ AllFinished
    /\ Len(Yields) = 1
    /\ conns[Yields[1].arg].peer = 2
    /\ Lines("refused") = <<v_conn_refused("dest", 1)>>

\* C2: in zero-I/O mode no generator ever yields a connection, and every
\* accepting port is connected, reported (verbose on) and closed: one
\* connection per successful attempt, none of them open.
C2_ZeroIOYieldsNothing ==
    (IsClient /\ z) =>
        /\ Yields = <<>>
        /\ Len(conns) = Len(OkDials)
        /\ \A c \in 1..Len(conns) : conns[c].peer = OkDials[c].port /\ ~IsOpen(c)
        /\ v => /\ Len(Lines("succeeded")) = Len(OkDials)
                /\ \A i \in 1..Len(OkDials) :
                      Lines("succeeded")[i] = v_conn_succeeded(OkDials[i].port)

\* C2 witness: a zero-I/O client iterated to the end over two accepting
\* ports: two connect/close cycles, two success lines, nothing yielded.
C2_Witness ==
    /\ IsClient /\ z /\ v /\ OnlyIterated
    /\ Len(port) = 2
    /\ Exhausted
    /\ AllFinished
    /\ Len(OkDials) = 2
    /\ Len(Lines("succeeded")) = 2
    /\ \A c \in 1..Len(conns) : ~IsOpen(c)

\* C8 as stated: at every moment at most one connection produced by the
\* same Client or Server is open.
C8_AtMostOneOpen ==
    Cardinality({c \in 1..Len(conns) : IsOpen(c)}) <= 1

\* Connections that generator g has yielded.
YieldedBy(g) == {out[i].arg : i \in {j \in 1..Len(out) : out[j].res = "yield" /\ out[j].via = g}}

\* C8 amended: within one for-loop iteration (one generator) of a Client,
\* of a TCP server, or of a UDP server without k, a connection the
\* generator has yielded is open only while the generator is suspended at
\* the yield of that connection: it is closed before the next one is dialed
\* or accepted.
C8_ClosedBeforeNext ==
    ~(kind = "UDPServer" /\ k) =>
        \A g \in 1..Len(gens) : \A c \in YieldedBy(g) :
            IsOpen(c) => (gens[g].st = "suspended" /\ gens[g].conn = c)

\* C8 witness: one generator has yielded a second connection; the first is
\* closed and the second is open.
C8_Witness ==
    /\ ~(kind = "UDPServer" /\ k)
    /\ \E g \in 1..Len(gens) : \E c1, c2 \in YieldedBy(g) :
          /\ c1 < c2
          /\ ~IsOpen(c1)
          /\ IsOpen(c2)
          /\ gens[g].st = "suspended" /\ gens[g].conn = c2

\* C9: on one Client, whatever the sequence of iteration starts and
\* get-next calls, every entry of the port list is dialed at most once, in
\* list order, and once a call has found the list exhausted no later call
\* delivers a connection.
C9_NotRestartable ==
    IsClient =>
        /\ \A i, j \in 1..Len(dials) : i < j => dials[i].idx < dials[j].idx
        /\ \A i \in 1..Len(dials) : dials[i].idx \in 1..Len(port)
        /\ \A i, j \in 1..Len(out) :
              (i < j /\ out[i].res = "StopIteration")
                  => out[j].res \notin {"yield", "return"}

\* C9 witness: a first iteration exhausted a list whose port accepted, and
\* a second iteration started afterwards ended without a connection.
C9_Witness ==
    /\ IsClient
    /\ Exhausted
    /\ Len(OkDials) >= 1
    /\ \E i, j \in 1..Len(out) :
          /\ i < j
          /\ out[i] = Result(1, "StopIteration", 0)
          /\ out[j] = Result(2, "StopIteration", 0)

(***************************************************************************)
(* Properties of the pync() run (specification SpecRun).                   *)
(***************************************************************************)
LastLine == stderr[Len(stderr)]
\* The run ended by reaching "return exit.status" with no exception raised.
NormalCompletion == pc = "returned" /\ exc.type = "none"
\* The server's generator ran _listening.
Listened == IsServer /\ gens # <<>> /\ gens[1].st # "created"

\* C3: exit.status is 1 when the run starts; a run that completes with no
\* exception raised returns exit.status, which is 0 or 1, and is 0 exactly
\* when a client connection succeeded or the server ran _listening; so a
\* client run whose dials were all refused returns 1.
C3_StatusZeroIffSucceeded ==
    /\ pc = "parse" => status = 1
    /\ NormalCompletion =>
          /\ retval = status
          /\ retval \in {0, 1}
          /\ retval = 0 <=> (OkDials # <<>> \/ Listened)
          /\ (IsClient /\ OkDials = <<>>) => retval = 1

\* C3 witness: a client run over ports <<1, 2>>, port 1 refused and port 2
\* accepting, that completed and returned 0.
C3_Witness ==
    /\ NormalCompletion
    /\ IsClient
    /\ Len(dials) = 2
    /\ dials[1].outcome \in Refusals
    /\ dials[2].outcome = "ok"
    /\ retval = 0

\* C4: a run in which a NetcatSocketError or NetcatProxyError was raised
\* never lets it out; it returns 1, and the last line on the error stream
\* is "pync: <message>" with the error's message, whatever exit.status was
\* before.
C4_LibraryErrorReported ==
    exc.type \in {"NetcatSocketError", "NetcatProxyError"} =>
        /\ pc # "propagated"
        /\ pc = "returned" =>
              /\ retval = 1
              /\ stderr # <<>>
              /\ LastLine.msg = "error"
              /\ LastLine.prefix = "pync: "
              /\ LastLine.text = exc.msg

\* C4 witness: a connection succeeded (exit.status 0), a later port raised
\* a NetcatSocketError, and the run returned 1.
C4_Witness ==
    /\ pc = "returned"
    /\ exc.type = "NetcatSocketError"
    /\ exc.at = "next"
    /\ OkDials # <<>>
    /\ retval = 1
    /\ LastLine = ErrorLine(exc.msg)

\* C5: a run in which KeyboardInterrupt was raised, wherever it struck,
\* never lets it out; it returns 130, and the last line on the error stream
\* is blank, whatever exit.status was before.
C5_InterruptReturns130 ==
    exc.type = "KeyboardInterrupt" =>
        /\ pc # "propagated"
        /\ pc = "returned" =>
              /\ retval = 130
              /\ stderr # <<>>
              /\ LastLine.msg = "blank"
              /\ LastLine.prefix = ""
              /\ LastLine.text = ""

\* C5 witness: the interrupt struck during the relay of a connection that
\* had succeeded (exit.status 0), and the run returned 130.
C5_Witness ==
    /\ pc = "returned"
    /\ exc.type = "KeyboardInterrupt"
    /\ exc.at = "relay"
    /\ OkDials # <<>>
    /\ retval = 130

\* C6: a run whose parsing ended in SystemExit constructs nothing and
\* returns exit.status as it was then: 0 exactly when the help was printed,
\* 1 for a usage violation or a rejected argument value.
C6_ParserExitStatus ==
    (pc = "returned" /\ exc.type = "SystemExit") =>
        /\ kind = "none"
        /\ retval = status
        /\ retval = 0 <=> exc.msg = "help"
        /\ exc.msg \in {"usage", "error"} => retval = 1

\* C6 witness: -h, and the run returned 0.
C6_Witness ==
    /\ pc = "returned"
    /\ exc = SystemExit("help")
    /\ argv.first = "help"
    /\ retval = 0

\* C7 as stated: the run always ends by returning 0, 1 or 130; no exception
\* leaves it.
C7_AlwaysReturnsStatus ==
    /\ pc # "propagated"
    /\ pc = "returned" => retval \in {0, 1, 130}

\* C7 amended: a run that returns returns 0, 1 or 130, and it returns
\* whenever it meets no exception, a NetcatSocketError, a NetcatProxyError,
\* a KeyboardInterrupt or the parser's SystemExit; the only exception that
\* leaves the run is a socket error that the library did not wrap (a send
\* failure other than a broken pipe, a setsockopt or listen failure).
C7_ReturnsUnlessOSError ==
    /\ pc = "returned" => retval \in {0, 1, 130}
    /\ pc = "propagated" => (exc.type = "OSError" /\ retval = -1)
    /\ pc = "returned" =>
          exc.type \in {"none", "NetcatSocketError", "NetcatProxyError",
                        "KeyboardInterrupt", "SystemExit"}

\* C7 witness: a send failed during the relay with a socket error other
\* than a broken pipe, and the error left the run.
C7_Witness ==
    /\ pc = "propagated"
    /\ exc.type = "OSError"
    /\ exc.at = "relay"
    /\ retval = -1

(***************************************************************************)
(* Properties of the relay loop (specification SpecRelay).                 *)
(***************************************************************************)
\* C10: with C off, the chunks handed to send are the chunks read from the
\* input stream, byte for byte and in the same order, and the chunks
\* written to the output stream are the chunks received from the socket;
\* no chunk is longer than 2048 bytes, and no iteration of the loop moves
\* more than 2048 bytes in either direction.
C10_RelayPreservesBytes ==
    (step # "none" /\ ~opts.C) =>
        /\ netout = reads
        /\ stdout = recvs
        /\ \A j \in 1..Len(netout) : BLen(netout[j]) \in 1..2048
        /\ \A j \in 1..Len(stdout) : BLen(stdout[j]) \in 1..2048
        /\ moved.rx <= 2048
        /\ moved.tx <= 2048

\* C10 witness: C off, an input stream longer than plen went out in two
\* chunks, the first of 2048 bytes, and a chunk from the socket was written.
C10_Witness ==
    /\ step # "none"
    /\ ~opts.C
    /\ Len(netout) = 2
    /\ BLen(netout[1]) = 2048
    /\ \E j \in 1..2 : \E r \in 1..Len(netout[j]) : netout[j][r].b = "LF"
    /\ stdin = <<>>
    /\ Len(stdout) >= 1

\* C11: with an idle timeout w configured, with or without d, no iteration
\* of the relay ends by going back to the top of the loop when at least w
\* seconds have passed since the last successful network read or send: the
\* relay ends in that iteration.
C11_TimeoutEndsRelay ==
    [][(step \in {"stdin", "idle"} /\ step' = "top" /\ opts.w # -1)
           => now - idle_time' < opts.w]_vars

\* C11 witness: d and w = 1 are set, an iteration has come back to the top
\* of the loop a second after the last traffic, and the relay goes on.
C11_Witness ==
    /\ opts.d
    /\ opts.w = 1
    /\ step = "top"
    /\ now - idle_time >= 1

C13_QuitAfterDelay ==
    /\ [][stdin_eof # -1 => stdin_eof' = stdin_eof]_vars
    /\ [][(opts.q > 0 /\ step = "stdin" /\ moved'.eof)
              => (step' = "quit_return" <=> now - stdin_eof' >= opts.q)]_vars
    /\ [](step = "quit_return" =>
              /\ opts.q > 0
              /\ moved.eof
              /\ now - stdin_eof >= opts.q)

\* C13 witness: q = 1, the first end-of-stream was read at time 1, the
\* relay went on, and a later end-of-stream read at time 2 ended it.
C13_Witness ==
    /\ opts.q = 1
    /\ opts.w = -1
    /\ stdin_eof = 1
    /\ now = 2
    /\ Len(netout) >= 1
    /\ step = "quit_return"

(***************************************************************************)
(* Properties of the server (specification Spec).                          *)
(***************************************************************************)
\* C14: on a server without k, every iteration yields at most one
\* connection and never waits for a peer again after its yield, and an
\* iteration that ended without a yield found the bound socket closed; on a
\* TCP server the listening socket is closed once a connection has been
\* produced, and no second peer is ever accepted, by an iteration or by a
\* get-next call.
C14_OneConnectionWithoutK ==
    (IsServer /\ ~k) =>
        /\ \A g \in 1..Len(gens) :
            /\ Cardinality(YieldedBy(g)) <= 1
            /\ gens[g].st = "suspended" => YieldedBy(g) = {gens[g].conn}
            /\ gens[g].st = "accept" => YieldedBy(g) = {}
            /\ (gens[g].st = "finished" /\ YieldedBy(g) = {})
                   => ~socks[ServSock].open
        /\ kind = "TCPServer" =>
            /\ conns # <<>> => ~socks[ServSock].open
            /\ Len(conns) <= 1
            /\ Len(Delivered) <= 1

\* C14 witness: a TCP server without k yielded its one connection, the
\* iteration ended, a second peer is still waiting, and a get-next call
\* ended the sequence.
C14_Witness ==
    /\ kind = "TCPServer"
    /\ ~k
    /\ Len(gens) = 1
    /\ gens[1].st = "finished"
    /\ Cardinality(YieldedBy(1)) = 1
    /\ ~socks[ServSock].open
    /\ pending # <<>>
    /\ out[Len(out)] = Result(0, "StopIteration", 0)

\* C15: in one iteration over a server with k (verbose on), the lines
\* reported are "Listening on ..." first, once, before any accept, and then
\* an alternation of one "Connection received ..." line per accepted peer
\* and one "Connection closed, listening again." line before the next
\* accept; on a TCP server every connection but the last one accepted is
\* closed; and the iteration has ended the sequence only with the bound
\* socket closed.
C15_ListeningOrder ==
    (IsServer /\ k /\ v /\ Len(gens) = 1 /\ OnlyIterated) =>
        LET n == Len(stderr) IN
        /\ gens[1].st = "created" => n = 0
        /\ gens[1].st # "created" => (n >= 1 /\ stderr[1] = v_listening)
        /\ \A i \in 2..n :
              stderr[i].msg = IF i % 2 = 0 THEN "accepted" ELSE "listening_again"
        /\ Len(Lines("accepted")) = Len(conns)
        /\ gens[1].st = "suspended" => n = 2 * Len(conns)
        /\ gens[1].st = "accept" => n = 2 * Len(conns) + 1
        /\ kind = "TCPServer" => \A c \in 1..(Len(conns) - 1) : ~IsOpen(c)
        /\ (\E i \in 1..Len(out) : out[i].res = "StopIteration")
              => ~socks[ServSock].open

\* C15 witness: a TCP server with k accepted two peers in one iteration,
\* reported "listening again" after each, and ended the iteration when the
\* server was closed.
C15_Witness ==
    /\ kind = "TCPServer"
    /\ k
    /\ v
    /\ Len(gens) = 1
    /\ OnlyIterated
    /\ Len(conns) = 2
    /\ Len(Lines("listening")) = 1
    /\ Len(Lines("listening_again")) = 2
    /\ out[Len(out)] = Result(1, "StopIteration", 0)

(***************************************************************************)
(* Properties of argument parsing (specification SpecArgs).                *)
(***************************************************************************)
\* The ports lo..hi in ascending order.
Interval(lo, hi) == [j \in 1..(hi - lo + 1) |-> lo + j - 1]

InPortRange(n) == n \in 1..65535
\* The word is in the port grammar: an integer or a range within 1..65535.
InGrammar(t) == t.kind \in {"int", "range"} /\ InPortRange(t.a) /\ InPortRange(t.b)
\* The word denotes one port.
OnePort(t) == InGrammar(t) /\ t.a = t.b
Lo(t) == IF t.a < t.b THEN t.a ELSE t.b
Hi(t) == IF t.a < t.b THEN t.b ELSE t.a

\* "pync -l WORD": server mode, one positional word, no -p.
OnePositional == argv.l /\ argv.dest # EmptyTok /\ argv.port = <<>> /\ argv.p = -1

\* C16 as stated: in server mode with one positional word and no -p, a
\* word of the port grammar becomes the port, dest becomes empty and the
\* server is bound to the wildcard address on that port (its construction
\* does not fail); any other word is rejected by the parser.
C16_PositionalBecomesPort ==
    OnePositional =>
        IF InGrammar(argv.dest)
        THEN /\ pc \in {"args", "parsed", "built"}
             /\ pc # "args" => ns["dest"] = EmptyTok
             /\ pc = "built" => addr.dest = Wildcard /\ addr.port = ns["port"]
        ELSE /\ pc \in {"args", "exited"}
             /\ pc = "exited" => exc = SystemExit("error")

\* C16 amended: a word that denotes one port n becomes the port n, dest
\* becomes empty and the server is bound to the wildcard address on port n;
\* a word that denotes several ports passes the parser as a sequence of
\* ports, dest becomes empty, and the server's construction fails with a
\* socket error before anything is bound; a word outside the port grammar
\* is rejected by the parser.
C16_PositionalSinglePort ==
    OnePositional =>
        /\ OnePort(argv.dest) =>
            /\ pc \in {"args", "parsed", "built"}
            /\ pc # "args" =>
                  ns["dest"] = EmptyTok /\ ns["port"] = PortInt(argv.dest.a)
            /\ pc = "built" =>
                  addr = [dest |-> Wildcard, port |-> PortInt(argv.dest.a)]
        /\ (InGrammar(argv.dest) /\ ~OnePort(argv.dest)) =>
            /\ pc \in {"args", "parsed", "failed"}
            /\ pc # "args" =>
                  /\ ns["dest"] = EmptyTok
                  /\ ns["port"] = PortChain(Interval(Lo(argv.dest), Hi(argv.dest)))
            /\ pc = "failed" =>
                  /\ exc.type = "NetcatSocketError"
                  /\ addr.dest = EmptyTok
                  /\ ~socks[ServSock].open
        /\ ~InGrammar(argv.dest) =>
            /\ pc \in {"args", "exited"}
            /\ pc = "exited" => exc = SystemExit("error")

\* C16 witness: "-l 65535" was parsed and the server is bound to the
\* wildcard address on port 65535.
C16_Witness ==
    /\ OnePositional
    /\ argv.dest = IntTok(65535)
    /\ pc = "built"
    /\ kind = "TCPServer"
    /\ ns["dest"] = EmptyTok
    /\ addr = [dest |-> Wildcard, port |-> PortInt(65535)]

\* The decision table on (listen flag, dest given, port given, p given).
InTable(a) ==
    IF a.l
    THEN \/ a.dest /\ a.port # <<>> /\ ~a.p
         \/ a.dest /\ a.port = <<>> /\ ~a.p
         \/ ~a.dest /\ a.port = <<>> /\ a.p
         \/ a.dest /\ a.port = <<>> /\ a.p
         \/ a.dest /\ a.port # <<>> /\ a.p
    ELSE a.dest /\ a.port # <<>>

\* C17: a command line without -h and without a rejected value is accepted
\* exactly when its combination is in the decision table; for every other
\* combination parsing ends with the parser's usage exit, nothing is
\* constructed, and the run returns a status that is not 0.
C17_DecisionTable ==
    (argv.first = "none" /\ pc # "parse") =>
        /\ InTable(argv) => exc.msg # "usage"
        /\ (~InTable(argv) /\ exc.type # "KeyboardInterrupt") =>
            /\ exc = SystemExit("usage")
            /\ pc \in {"handle", "return", "returned"}
            /\ kind = "none"
            /\ pc = "returned" => retval # 0 /\ retval = 1

\* C17 witness: a client command line with a dest and no port ended with
\* the usage exit and the run returned 1; so did a server command line
\* with a port but neither dest nor p.
C17_Witness ==
    /\ argv.first = "none"
    /\ \/ ~argv.l /\ argv.dest /\ argv.port = <<>>
       \/ argv.l /\ ~argv.dest /\ argv.port # <<>> /\ ~argv.p
    /\ pc = "returned"
    /\ exc = SystemExit("usage")
    /\ retval = 1

\* The command line c with the option z (client group) given or not.
WithZ(c, given) == [c EXCEPT !.z = given]
\* The command line c with the option k (server group) given or not.
WithK(c, given) == [c EXCEPT !.k = given]

\* C18: the configuration parse_args returns holds the general-group
\* values and the values of one mode group.  In server mode no key of the
\* client group is in it, the server group's values are, and giving a
\* client-group option changes neither the configuration nor the server
\* built from it; in client mode no key of the server group is in it and
\* the client group's values are.
C18_OneModeGroup ==
    pc \in {"parsed", "built", "failed"} =>
        /\ GeneralKeys \subseteq DOMAIN ns
        /\ \A key \in GeneralKeys \ {"dest", "port", "p", "T", "u"} : ns[key] = "default"
        /\ ns["p"] = (IF argv.p = -1 THEN 0 ELSE argv.p)
        /\ argv.l =>
            /\ DOMAIN ns = GeneralKeys \cup ServerKeys
            /\ DOMAIN ns \cap ClientKeys = {}
            /\ ns["l"] = TRUE /\ ns["k"] = argv.k
            /\ \A given \in BOOLEAN :
                  /\ ParseExit(WithZ(argv, given)) = "none"
                  /\ Namespace(WithZ(argv, given)) = ns
            /\ pc = "built" => z = FALSE /\ kind \in ServerKinds /\ k = argv.k
        /\ ~argv.l =>
            /\ DOMAIN ns = GeneralKeys \cup ClientKeys
            /\ DOMAIN ns \cap ServerKeys = {}
            /\ ns["z"] = argv.z
            /\ \A given \in BOOLEAN :
                  /\ ParseExit(WithK(argv, given)) = "none"
                  /\ Namespace(WithK(argv, given)) = ns
            /\ pc = "built" => z = argv.z /\ kind \in ClientKinds /\ k = FALSE

\* C18 witness: a server command line that also gives -z and -k was parsed
\* and the server built; z is not in the configuration and not set on the
\* server, k is.
C18_Witness ==
    /\ argv.l /\ argv.z /\ argv.k
    /\ pc = "built"
    /\ "z" \notin DOMAIN ns
    /\ ns["k"] = TRUE
    /\ z = FALSE
    /\ k = TRUE

\* The port words of a command line.
PortWords(c) == {c.port[j] : j \in 1..Len(c.port)}

\* C19: for every port word of the command line, a bare integer n with
\* 1 <= n <= 65535 parses to the range [n, n+1); a word start-end with both
\* bounds in 1..65535 parses to the ports min(start,end)..max(start,end)
\* inclusive, the same as the word with its bounds exchanged; a word with a
\* bound outside 1..65535 is rejected, and the parser exits with an error
\* on a command line that holds one.
C19_PortToken ==
    /\ \A t \in PortWords(argv) :
        /\ (t.kind = "int" /\ 1 <= t.a /\ t.a <= 65535) =>
              parse_port(t) = [start |-> t.a, stop |-> t.a + 1]
        /\ (t.kind = "range" /\ t.a \in 1..65535 /\ t.b \in 1..65535) =>
              /\ parse_port(t) # ValueError
              /\ parse_port(t).start = Lo(t)
              /\ parse_port(t).stop = Hi(t) + 1
              /\ parse_port(t) = parse_port(RangeTok(t.b, t.a))
        /\ (t.kind \in {"int", "range"} /\ (t.a \notin 1..65535 \/ t.b \notin 1..65535)) =>
              /\ parse_port(t) = ValueError
              /\ pc \in {"args", "exited"}
              /\ pc = "exited" => exc = SystemExit("error")
    /\ (pc \in {"parsed", "built", "failed"} /\ Len(argv.port) = 1) =>
        LET t == argv.port[1] IN
        /\ t.kind \in {"int", "range"}
        /\ Lo(t) >= 1 /\ Hi(t) <= 65535
        /\ IF ns["port"].type = "int"
           THEN t.a = t.b /\ ns["port"].n = t.a
           ELSE ns["port"] = PortChain(Interval(Lo(t), Hi(t)))

\* C19 witness: the reversed range 2-1 was parsed and gives the ports 1, 2.
C19_Witness ==
    /\ argv.port = <<RangeTok(2, 1)>>
    /\ pc = "parsed"
    /\ ns["port"] = PortChain(<<1, 2>>)

\* The words that make the port of a command line: the port words, or the
\* dest word that server mode reads as the port.
Words(c) ==
    IF c.port # <<>> THEN c.port
    ELSE IF c.l /\ c.dest # EmptyTok /\ c.p = -1 THEN <<c.dest>>
    ELSE <<>>

\* The orders of the words w in which the range starts do not decrease.
ByStart(w) ==
    {f \in [1..Len(w) -> 1..Len(w)] :
        /\ \A i, j \in 1..Len(w) : i # j => f[i] # f[j]
        /\ \A i, j \in 1..Len(w) : i < j => Lo(w[f[i]]) <= Lo(w[f[j]])}

\* The ranges of the words w in the order f, each flattened ascending.
RECURSIVE Flattened(_, _, _)
Flattened(w, f, j) ==
    IF j > Len(w) THEN <<>>
    ELSE Interval(Lo(w[f[j]]), Hi(w[f[j]])) \o Flattened(w, f, j + 1)

\* How often the port n is in the sequence ps.
Count(n, ps) == Cardinality({i \in 1..Len(ps) : ps[i] = n})

\* C20: the configured port is the plain integer when exactly one word that
\* denotes a single port was given; otherwise it is one sequence, the
\* ranges of the words ordered by range start and each flattened ascending,
\* in which every port is once per word whose range contains it.
C20_ConfiguredPort ==
    (pc \in {"parsed", "built", "failed"} /\ Words(argv) # <<>>) =>
        LET w == Words(argv) IN
        IF Len(w) = 1 /\ Lo(w[1]) = Hi(w[1])
        THEN ns["port"] = PortInt(Lo(w[1]))
        ELSE /\ ns["port"].type = "chain"
             /\ \E f \in ByStart(w) : ns["port"].ports = Flattened(w, f, 1)
             /\ \A n \in UNION {Lo(w[j])..Hi(w[j]) : j \in 1..Len(w)} :
                   Count(n, ns["port"].ports) =
                       Cardinality({j \in 1..Len(w) : Lo(w[j]) <= n /\ n <= Hi(w[j])})
             /\ \A i \in 1..Len(ns["port"].ports) :
                   \E j \in 1..Len(w) :
                       Lo(w[j]) <= ns["port"].ports[i] /\ ns["port"].ports[i] <= Hi(w[j])

\* C20 witness: the words "2" and "1-2" were parsed into the sequence
\* 1, 2, 2: the range that starts lower comes first and port 2 is in it
\* twice.
C20_Witness ==
    /\ argv.port = <<IntTok(2), RangeTok(1, 2)>>
    /\ pc = "parsed"
    /\ ns["port"] = PortChain(<<1, 2, 2>>)

\* The -T word was accepted with the value n.
AcceptedT(n) == pc # "args" => pc # "exited" /\ ns["T"] = n
\* The -T word was rejected.
RejectedT ==
    /\ pc \in {"args", "exited"}
    /\ pc = "exited" => exc = SystemExit("error")

\* C21: a keyword of the TOS table resolves to its table value (cs1 to 32,
\* throughput to 8); any other -T word is read as decimal, or as
\* hexadecimal when decimal reading fails ("16" and "0x10" both give 16,
\* "10" gives 10, "ff" gives 255); every accepted value lies in 0..255, and
\* a word whose value is outside 0..255 ("256", "-1", "0xfff") or that
\* reads in neither base is rejected.
C21_TosValue ==
    argv.T # NoT =>
        /\ argv.T = KeywordT("cs1") => AcceptedT(32)
        /\ argv.T = KeywordT("throughput") => AcceptedT(8)
        /\ argv.T.kw \in DOMAIN TOSKEYWORDS => AcceptedT(TOSKEYWORDS[argv.T.kw])
        /\ argv.T = TextT(<<"1", "6">>) => AcceptedT(16)
        /\ argv.T = TextT(<<"0", "x", "1", "0">>) => AcceptedT(16)
        /\ argv.T = TextT(<<"1", "0">>) => AcceptedT(10)
        /\ argv.T = TextT(<<"f", "f">>) => AcceptedT(255)
        /\ argv.T = TextT(<<"2", "5", "5">>) => AcceptedT(255)
        /\ argv.T = TextT(<<"2", "5", "6">>) => RejectedT
        /\ argv.T = TextT(<<"-", "1">>) => RejectedT
        /\ argv.T = TextT(<<"0", "x", "f", "f">>) => AcceptedT(255)
        /\ argv.T = TextT(<<"1", "0", "0">>) => AcceptedT(100)
        /\ argv.T = TextT(<<"x">>) => RejectedT
        /\ argv.T = TextT(<<>>) => RejectedT
        /\ argv.T.kw = "" =>
              LET dec == int(argv.T.text, 10)
                  hex == int(argv.T.text, 16)
                  n == IF dec.ok THEN dec.n ELSE hex.n
              IN  IF (dec.ok \/ hex.ok) /\ n \in 0..255
                  THEN AcceptedT(n) ELSE RejectedT
        /\ pc \in {"parsed", "built", "failed"} => ns["T"] \in 0..255

\* C21 witness: "-T 0x10" was parsed to 16 and the object built.
C21_Witness ==
    /\ argv.T = TextT(<<"0", "x", "1", "0">>)
    /\ pc = "built"
    /\ ns["T"] = 16

\* C22: the type of the object built from a command line is given by the
\* flags l and u alone: l and u a UDP server, l alone a TCP server, u alone
\* a UDP client, neither a TCP client, whether p is given or not; a client
\* is constructed with the p given as its source port.
C22_FactorySelectsType ==
    pc \in {"built", "failed"} =>
        /\ (argv.l /\ argv.u) => kind = "UDPServer"
        /\ (argv.l /\ ~argv.u) => kind = "TCPServer"
        /\ (~argv.l /\ argv.u) => kind = "UDPClient"
        /\ (~argv.l /\ ~argv.u) => kind = "TCPClient"
        /\ ~argv.l => srcport = (IF argv.p = -1 THEN 0 ELSE argv.p)

\* C22 witness: "-u -p 1 dest 1" built a UDP client with source port 1.
C22_Witness ==
    /\ ~argv.l /\ argv.u /\ argv.p = 1
    /\ pc = "built"
    /\ kind = "UDPClient"
    /\ srcport = 1

\* C37: a server built from a command line with -p is bound to p, whatever
\* the positional port is (none, one port, a range or several ports), and
\* its construction does not fail on the positional port; nothing of the
\* server holds the positional port.  Without -p it is the positional port
\* that the server is given.
C37_ServerBindsSourcePort ==
    (pc \in {"built", "failed"} /\ kind \in ServerKinds) =>
        IF ns["p"] # 0
        THEN /\ pc = "built"
             /\ exc = NoExc
             /\ addr.port = PortInt(ns["p"])
             /\ port = <<ns["p"]>>
             /\ srcport = 0
        ELSE pc = "built" => addr.port = ns["port"]

\* C37 witness: "-l -p 1 dest 2" built a server bound to port 1.
C37_Witness ==
    /\ pc = "built"
    /\ kind = "TCPServer"
    /\ ns["p"] = 1
    /\ ns["port"] = PortInt(2)
    /\ addr.port = PortInt(1)
    /\ port = <<1>>

(***************************************************************************)
(* Properties of the process wrappers (specification SpecProc).            *)
(***************************************************************************)
\* C23: for the spawned-command wrapper, a read that begins when the
\* process has exited and the pipe is empty raises ProcessTerminated, and
\* so does every read after it: none of them returns data, empty data or
\* None.  (The process stays exited and the pipe empty while such a read is
\* under way.)
C23_TerminatedOnceDrained ==
    wrapper = "command" =>
        /\ \A i \in 1..Len(preads) :
              preads[i].drained =>
                  \A j \in i..Len(preads) :
                      /\ preads[j].res = "ProcessTerminated"
                      /\ preads[j].n = 0
        /\ (reader.at = "check" /\ reader.drained) => (~child.alive /\ pipe = <<>>)

\* C23 witness: the child wrote, exited, the parent read the data and then
\* two more reads both raised ProcessTerminated.
C23_Witness ==
    /\ wrapper = "command"
    /\ Len(preads) = 3
    /\ preads[1].res = "data"
    /\ preads[2].res = "ProcessTerminated" /\ preads[2].drained
    /\ preads[3].res = "ProcessTerminated"

\* C24 as stated: whenever a read of either wrapper raises
\* ProcessTerminated, the process has exited and no byte it wrote is still
\* in the pipe.
C24_NothingLeftAtSignal ==
    \A i \in 1..Len(preads) :
        preads[i].res = "ProcessTerminated" =>
            preads[i].gone /\ preads[i].left = 0

\* C24 witness: a read found the pipe empty, the child then wrote and
\* exited, and the read raised ProcessTerminated with the bytes still in the
\* pipe.
C24_Witness ==
    /\ Len(preads) = 1
    /\ preads[1].res = "ProcessTerminated"
    /\ preads[1].left > 0
    /\ ~preads[1].drained
    /\ pipe # <<>>

(***************************************************************************)
(* More properties of the iteration protocol (specification Spec).         *)
(***************************************************************************)
\* C25 as stated: whether a client's connections are obtained from a
\* generator of the for loop or by the explicit get-next call, no call of
\* the caller ends with the ConnectionRefused signal.
C25_RefusalNeverReachesCaller ==
    IsClient => \A i \in 1..Len(out) : out[i].res # "ConnectionRefused"

\* C25 witness: the explicit get-next call dialled a port that refused and
\* raised ConnectionRefused to the caller.
C25_Witness ==
    /\ IsClient
    /\ Len(out) >= 1
    /\ out[Len(out)] = Raised(0, "ConnectionRefused", "")
    /\ Len(dials) >= 1
    /\ dials[Len(dials)].outcome \in Refusals

\* C30 as stated: every connection has one socket, and unless the caller
\* closed the connection itself, close has been applied to that socket at
\* most once, in zero-I/O mode too.
C30_ClosedAtMostOnce ==
    \A c \in 1..Len(conns) :
        /\ conns[c].sock \in 1..Len(socks)
        /\ ~conns[c].userClosed => socks[conns[c].sock].closes <= 1

\* C30 witness: a zero-I/O client iterated by a generator connected to a
\* port; the connection was closed by next_connection and again by the
\* finally clause of iter_connections, and was never handed to the caller.
C30_Witness ==
    /\ IsClient
    /\ z
    /\ Len(gens) >= 1
    /\ \E c \in 1..Len(conns) :
          /\ ~conns[c].userClosed
          /\ ~socks[conns[c].sock].open
          /\ socks[conns[c].sock].closes = 2
    /\ \A i \in 1..Len(out) : out[i].res # "yield"

\* A generator's yielded connection ends in this step: the generator was
\* suspended at its yield and has left it (resumed or closed).
ConnectionEnds(g) ==
    /\ g \in 1..Len(gens)
    /\ gens[g].st = "suspended"
    /\ gens'[g].st # "suspended"

\* C31: every pseudo-connection of a UDP server is the bound socket; when
\* one ends, _close_request closes the bound socket if k is false and
\* leaves every socket as it was if k is true, so that with k the next
\* accept reads from the same, still open socket.
C31_UDPCloseRequest ==
    /\ [](kind = "UDPServer" => \A c \in 1..Len(conns) : conns[c].sock = ServSock)
    /\ [][(kind = "UDPServer" /\ \E g \in 1..Len(gens) : ConnectionEnds(g)) =>
              socks' = IF k THEN socks ELSE CloseSock(socks, ServSock)]_vars
    /\ [][(kind = "UDPServer" /\ Len(conns') > Len(conns)) =>
              (socks[ServSock].open /\ socks' = socks)]_vars

\* C31 witness: a UDP server with k has yielded its second pseudo-connection
\* on the bound socket, which no close has touched.
C31_Witness ==
    /\ kind = "UDPServer"
    /\ k
    /\ Len(conns) = 2
    /\ Len(gens) = 1
    /\ gens[1].st = "suspended"
    /\ gens[1].conn = 2
    /\ socks[ServSock] = NewSock

\* A port was dialed in this step, with outcome o.
Dialed(o) ==
    /\ Len(dials') = Len(dials) + 1
    /\ dials'[Len(dials')].outcome = o

\* The caller has iterated the client once, with one generator and no
\* get-next call.
OneIteration == Len(gens) <= 1 /\ OnlyIterated

C39_AlwaysFirstPeer ==
    (kind = "UDPServer" /\ k) =>
        \A c \in 1..Len(conns) : conns[c].peer = conns[1].peer

\* C39 as amended: every accept of a UDP server connects the bound socket
\* to the sender of the datagram it received, and the pseudo-connection is
\* with that sender; the socket is never disconnected, and once it is
\* connected a datagram arrives only from the peer it is connected to; so
\* a later pseudo-connection is with another peer exactly when its
\* datagram was waiting on the socket before the accept that preceded it.
C39_ConnectedToLatestSender ==
    /\ [][(kind = "UDPServer" /\ Len(conns') > Len(conns)) =>
              /\ pending # <<>>
              /\ conns'[Len(conns')] = NewConn(ServSock, Head(pending))
              /\ udpPeer' = Head(pending)
              /\ socks' = socks]_vars
    /\ [][udpPeer # 0 => udpPeer' # 0]_vars
    /\ [][(kind = "UDPServer" /\ udpPeer' # udpPeer) => Len(conns') > Len(conns)]_vars
    /\ [][(kind = "UDPServer" /\ udpPeer # 0 /\ Len(pending') > Len(pending)) =>
              pending'[Len(pending')] = udpPeer]_vars
    /\ [](kind = "UDPServer" =>
              udpPeer = (IF conns = <<>> THEN 0 ELSE conns[Len(conns)].peer))

\* C39 witness: two senders' datagrams were waiting when a UDP server with k
\* accepted; its first pseudo-connection is with the first sender, its
\* second, on the same socket, with the second.
C39_Witness ==
    /\ kind = "UDPServer" /\ k
    /\ Len(conns) = 2
    /\ conns[1].peer = 1
    /\ conns[2].peer = 2
    /\ conns[2].sock = conns[1].sock
    /\ udpPeer = 2
    /\ socks[ServSock].open

(***************************************************************************)
(* Properties of a port attempt (specification SpecDial).                  *)
(***************************************************************************)
\* The attempt is past _client_bind.
PastBind == attempt.at \in {"connect", "connected", "returned"}

BindCalled == \E i \in 1..Len(attempt.calls) : attempt.calls[i] = "bind"

\* C33 as stated: in an attempt that is past _client_bind, the socket has
\* been bound if and only if a source address or a source port was given.
C33_BindIffSourceGiven ==
    (IsClient /\ PastBind) => (BindCalled <=> (attempt.s \/ srcport # 0))

\* C33 witness: an attempt with neither a source address nor a source port
\* has bound the socket, connected and returned the connection.
C33_Witness ==
    /\ IsClient
    /\ ~attempt.s
    /\ srcport = 0
    /\ attempt.at = "returned"
    /\ BindCalled
    /\ Len(socks) = 1

WasCalled(c) == \E i \in 1..Len(attempt.calls) : attempt.calls[i] = c

\* The socket a peer is reached over exists and has been connected.
Connected == socks # <<>> /\ (WasCalled("connect") \/ WasCalled("accept"))

\* C35 as stated: with an unrecognized keyword option the construction of
\* any of the four classes fails, before any socket is created or connected.
C35_UnknownOptionFailsConstruction ==
    attempt.kw =>
        /\ attempt.at \in {"new", "raised"}
        /\ attempt.at = "raised" =>
              (attempt.res = "ValueError" /\ attempt.calls = <<"_init_kwargs">>)

\* C35 as amended: a Context or a Connection given an unrecognized keyword
\* option fails at construction with ValueError, nothing else having been
\* called; a client or a server is constructed with it, and the ValueError
\* is raised when its first connection is built, with the socket created
\* and connected; no connection is ever returned.  Without such an option
\* there is no ValueError.
C35_UnknownOptionRaised ==
    /\ []((attempt.kw /\ kind \in WrapperKinds) =>
              /\ attempt.at \in {"new", "raised"}
              /\ attempt.at = "raised" =>
                    /\ attempt.res = "ValueError"
                    /\ attempt.calls = <<"_init_kwargs">>
                    /\ ~Connected)
    /\ [][(attempt.kw /\ kind \in ClientKinds \cup ServerKinds /\ attempt.at = "new") =>
              attempt'.at \in {"start", "listening"}]_vars
    /\ []((attempt.kw /\ kind \in ClientKinds \cup ServerKinds) =>
              /\ attempt.at # "returned"
              /\ attempt.res = "ValueError" =>
                    /\ Connected
                    /\ socks[Len(socks)].open
                    /\ attempt.calls[Len(attempt.calls) - 1] = "Connection")
    /\ [][(attempt.kw /\ attempt.at = "connected") => attempt'.res = "ValueError"]_vars
    /\ [](~attempt.kw => attempt.res # "ValueError")

\* C35 witness: a TCP client constructed with an unrecognized keyword option
\* resolved, connected, and met the ValueError when it built the connection.
C35_Witness ==
    /\ attempt.kw
    /\ kind = "TCPClient"
    /\ attempt.at = "raised"
    /\ attempt.res = "ValueError"
    /\ WasCalled("connect")
    /\ socks = <<NewSock>>

(***************************************************************************)
(* More properties of a run (specification SpecRun).                       *)
(***************************************************************************)
\* The construction of a server failed.
ServerConstructionFailed == argv.l /\ exc.at = "construct"

\* C32: a server construction that fails (address resolution, bind,
\* setsockopt, listen, an interrupt) leaves the one socket it created
\* closed, closed once, and no connection, generator or later step ever
\* opens a socket; the error that goes on is the one the failure raised,
\* NetcatSocketError for a failed address resolution or bind.
C32_FailedConstructionCloses ==
    /\ [](ServerConstructionFailed =>
              /\ socks = <<[open |-> FALSE, closes |-> 1]>>
              /\ conns = <<>> /\ gens = <<>>)
    /\ [][(pc = "construct" /\ argv.l /\ pc' # "iter") =>
              /\ pc' = "handle"
              /\ \E o \in ConstructOutcomes(argv) \ {"ok"} : exc' = ConstructExc(o)
              /\ socks' = <<[open |-> FALSE, closes |-> 1]>>]_vars
    /\ []((ServerConstructionFailed /\ exc.type = "NetcatSocketError") =>
              (exc \in {ConstructExc("gaierror"), ConstructExc("binderr")}
               /\ retval \in {-1, 1}))

\* C32 witness: a bind failure ended the construction of a server, the
\* socket is closed and the run has returned 1 for the wrapped error.
C32_Witness ==
    /\ ServerConstructionFailed
    /\ exc = ConstructExc("binderr")
    /\ exc.type = "NetcatSocketError"
    /\ ~socks[ServSock].open
    /\ pc = "returned"
    /\ retval = 1

\* C34: a proxy error happens only with a proxy configured.  When its cause
\* is a refusal, the refusal line (verbose on) names the proxy's address
\* and port, no error is raised and the generator goes on with the port
\* list, the port being consumed.  Any other proxy error leaves the loop as
\* NetcatProxyError, with the text of the wrapped socket error when there
\* is one and the proxy error's own text otherwise, and writes no line.
C34_ProxyErrors ==
    /\ [](\A i \in 1..Len(dials) : dials[i].outcome \in ProxyOutcomes => x)
    /\ [][Dialed("proxy_refused") =>
              /\ stderr' = IF v THEN Append(stderr, [msg |-> "refused",
                                                     prefix |-> "pync: ",
                                                     dest |-> "proxy",
                                                     port |-> ProxyPort,
                                                     proto |-> protocol_name,
                                                     text |-> ""])
                                 ELSE stderr
              /\ exc' = exc /\ pc' = pc /\ out' = out
              /\ running' = running /\ running # 0
              /\ iterports' = iterports + 1]_vars
    /\ [][Dialed("proxy_sockerr") =>
              /\ exc' = [type |-> "NetcatProxyError",
                         msg |-> "str(proxy_err.socket_err)", at |-> "next"]
              /\ pc' = "exit" /\ stderr' = stderr /\ running' = 0]_vars
    /\ [][Dialed("proxy_err") =>
              /\ exc' = [type |-> "NetcatProxyError",
                         msg |-> "str(proxy_err)", at |-> "next"]
              /\ pc' = "exit" /\ stderr' = stderr /\ running' = 0]_vars

\* C34 witness: behind a proxy, with verbose on, the first port was refused
\* at the proxy and reported with the proxy's address; the second port met
\* a proxy error wrapping a socket error, which ended the run with 1.
C34_Witness ==
    /\ x /\ v
    /\ Len(dials) = 2
    /\ dials[1].outcome = "proxy_refused"
    /\ dials[2].outcome = "proxy_sockerr"
    /\ Len(Lines("refused")) = 1
    /\ Lines("refused")[1].dest = "proxy"
    /\ exc.type = "NetcatProxyError"
    /\ pc = "returned"
    /\ retval = 1

(***************************************************************************)
(* More properties of the relay (specification SpecRelay).                 *)
(***************************************************************************)
\* The relay has ended.
RelayEnded == ~InRelay

\* C26: the network read that reports end-of-stream shuts the read half of
\* the socket down and sets netin_eof, writes nothing and goes on to the
\* input step of the same iteration; a chunk read from the input in that
\* step is still handed to send; with netin_eof set there is no further
\* network read, and the top of the loop ends the relay.
C26_NetworkEOF ==
    /\ [](netin_eof => (shut.rd /\ step # "netin" /\ moved.rxerr = ""))
    /\ [][(~netin_eof /\ netin_eof') =>
              /\ step = "netin" /\ step' = "stdin"
              /\ recvs' = recvs /\ stdout' = stdout /\ netin = <<>>]_vars
    /\ [][(netin_eof /\ step = "stdin" /\ ~opts.d /\ reads' # reads) =>
              /\ Len(reads') = Len(reads) + 1
              /\ netout' = Append(netout, netout_data(reads'[Len(reads')]))]_vars
    /\ [][(netin_eof /\ step = "top") => step' = "netin_eof_break"]_vars
    /\ [][netin_eof => recvs' = recvs]_vars

\* C26 witness: the network reported end-of-stream, the input step of the
\* same iteration read a chunk and sent it, and the iteration is at its
\* end.
C26_Witness ==
    /\ netin_eof
    /\ shut.rd
    /\ step = "idle"
    /\ moved.tx > 0
    /\ Len(netout) >= 1

\* C27: a send that fails with a broken pipe ends the relay at once and
\* without an error; a send that fails with any other errno ends it with
\* that error raised out of readwrite; in both cases nothing else of the
\* iteration has run.
C27_SendFailure ==
    /\ [](moved.txerr = "EPIPE" => (step = "broken_pipe_return" /\ exc = NoExc))
    /\ []((moved.txerr # "" /\ moved.txerr # "EPIPE") =>
              (step = "send_error_raise" /\ exc.type = "OSError"))
    /\ [](step \in {"broken_pipe_return", "send_error_raise"} => moved.txerr # "")
    /\ [][moved'.txerr # "" =>
              /\ step = "stdin"
              /\ idle_time' = idle_time /\ shut' = shut /\ stdin_eof' = stdin_eof
              /\ stdout' = stdout]_vars

\* C27 witness: a send failed with ECONNRESET and the error left the relay.
C27_Witness ==
    /\ moved.txerr = "ECONNRESET"
    /\ step = "send_error_raise"
    /\ exc.type = "OSError"
    /\ Len(netout) >= 1

\* C28 as stated: a failure of recv on a TCP connection during the relay
\* leaves the relay as an error.
C28_RecvFailurePropagates ==
    (~IsUDP /\ moved.rxerr # "") => (RelayEnded /\ exc.type # "none")

\* C28 as amended: a failure of recv on a TCP connection during the relay
\* ends readwrite at once by a plain return: no error leaves the relay, and
\* nothing else of the iteration runs (no write to the output, no read of
\* the input, no send, no shutdown).
C28_RecvFailureReturns ==
    /\ []((~IsUDP /\ moved.rxerr # "") =>
              (step = "recv_error_return" /\ RelayEnded /\ exc = NoExc))
    /\ [](step = "recv_error_return" => (~IsUDP /\ moved.rxerr # ""))
    /\ [][moved'.rxerr # "" =>
              /\ step = "netin"
              /\ stdout' = stdout /\ netout' = netout /\ reads' = reads
              /\ recvs' = recvs /\ shut' = shut /\ netin_eof' = netin_eof
              /\ stdin_eof' = stdin_eof /\ idle_time' = idle_time]_vars
    /\ [][step = "recv_error_return" => UNCHANGED vars]_vars

\* C28 witness: recv failed with ECONNRESET on a TCP connection after a
\* chunk had been received, and readwrite returned without an error.
C28_Witness ==
    /\ ~IsUDP
    /\ moved.rxerr = "ECONNRESET"
    /\ step = "recv_error_return"
    /\ exc = NoExc
    /\ Len(recvs) >= 1

\* C29: a StopReadWrite raised by the input read, or by recv on a UDP
\* connection that failed with an error or a refusal, breaks the loop: the
\* relay has ended without an error, and nothing of that iteration ran
\* after the step that raised it (no write to the output, no send, no
\* shutdown, no change of the timers).
C29_StopRelay ==
    /\ [](moved.stop => (step = "stop_break" /\ exc = NoExc))
    /\ []((IsUDP /\ moved.rxerr # "") => (step = "stop_break" /\ exc = NoExc))
    /\ [](step = "stop_break" => (moved.stop \/ (IsUDP /\ moved.rxerr # "")))
    /\ [][step' = "stop_break" =>
              /\ step \in {"netin", "stdin"}
              /\ stdout' = stdout /\ netout' = netout /\ reads' = reads
              /\ recvs' = recvs /\ shut' = shut /\ idle_time' = idle_time
              /\ stdin_eof' = stdin_eof /\ netin_eof' = netin_eof]_vars
    /\ [][step = "stop_break" => UNCHANGED vars]_vars

\* C29 witness: recv on a UDP connection failed with a refusal after a
\* chunk had been relayed, and the loop was left by the break.
C29_Witness ==
    /\ IsUDP
    /\ moved.rxerr = "ECONNREFUSED"
    /\ step = "stop_break"
    /\ exc = NoExc
    /\ Len(netout) >= 1

\* readwrite was called with w = 0 and d unset.
ZeroTimeout == pc = "readwrite" /\ opts.w = 0 /\ ~opts.d

\* C38: with w = 0 and d unset the loop is never entered a second time:
\* the first iteration makes its network read, then its input read, then
\* meets the timeout check, which returns whatever the time and whether or
\* not the iteration moved data; so at most one chunk is received and at
\* most one is read.  (An iteration that an error, a stop request or the
\* quit delay ends has ended the relay before the check.)
C38_ZeroTimeoutOneIteration ==
    /\ [][ZeroTimeout => (step' = "top" => step = "top")]_vars
    /\ [][(ZeroTimeout /\ step = "idle" /\ step' # "idle") => step' = "timeout_return"]_vars
    /\ [][(ZeroTimeout /\ step' = "timeout_return") => step = "idle"]_vars
    /\ [][(ZeroTimeout /\ step' = "idle" /\ step # "idle") => step = "stdin"]_vars
    /\ [][(ZeroTimeout /\ step' = "stdin" /\ step # "stdin") => step = "netin"]_vars
    /\ [][(ZeroTimeout /\ step' = "netin" /\ step # "netin") => step = "top"]_vars
    /\ [](ZeroTimeout => (Len(recvs) <= 1 /\ Len(reads) <= 1))
    /\ []((ZeroTimeout /\ step = "timeout_return") =>
              (Len(recvs) = (IF moved.rx > 0 THEN 1 ELSE 0)
               /\ Len(reads) = (IF moved.tx > 0 THEN 1 ELSE 0)))

\* C38 witness: with w = 0 the first iteration received a chunk and read
\* and sent one, time passed, and the timeout check returned while both
\* streams still had bytes to come.
C38_Witness ==
    /\ ZeroTimeout
    /\ step = "timeout_return"
    /\ moved.rx > 0 /\ moved.tx > 0
    /\ now > idle_time
    /\ stdin # <<>> /\ netin # <<>>

====
